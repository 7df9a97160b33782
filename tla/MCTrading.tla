------------------------------ MODULE MCTrading ------------------------------
(***************************************************************************)
(* A small instance of every component of Trading for TLC.                 *)
(***************************************************************************)
EXTENDS Trading

D(s, act, conf, stops, entry) ==
    [symbol |-> s, action |-> act, confidence |-> conf, stops |-> stops, entry |-> entry]
Says(overall, decisions) == [overall |-> overall, decisions |-> decisions]

\* Agreement, disagreement, a flip, a repeated proposal, a hold and doubt.
SmallAnswers ==
    { Says(70, <<D("b", "open_long", 70, FALSE, FALSE)>>),
      Says(60, <<D("b", "open_short", 80, FALSE, TRUE), D("e", "open_long", 90, TRUE, TRUE)>>),
      Says(80, <<D("b", "close_long", 90, FALSE, FALSE), D("c", "open_long", 60, FALSE, FALSE),
                 D("b", "open_short", 50, FALSE, FALSE)>>),
      Says(50, <<D("b", "open_long", 90, FALSE, FALSE), D("b", "open_long", 30, TRUE, TRUE)>>),
      Says(60, <<D("b", "hold", 60, FALSE, FALSE)>>) }

SmallWatched == <<"b", "e">>

Past(b, e) == [s \in {"b", "e"} |-> IF s = "b" THEN b ELSE e]

\* Rises, falls, gaps, and pairs that part after two or three hours.
SmallHistories ==
    { Past(<<100, 100, 110, 120, 90>>, <<100, 90, 80, 100, 80>>),
      Past(<<100, 100, 110, 90, 120>>, <<100, 90, 80, 70, 100>>),
      Past(<<100, 100, 90, 0, 120>>,   <<0, 100, 120, 90, 0>>) }

Do(action, s, notional) ==
    [action |-> action, symbol |-> s, notional |-> notional, stops |-> [sl |-> 0, tp |-> 0],
     cautious |-> FALSE]

SmallReplies ==
    { <<Do("long", "b", 600), Do("short", "e", 900)>>,
      <<Do("short", "b", 400), Do("long", "b", 900)>>,
      <<Do("close", "e", 0), Do("long", "e", 300)>> }
=============================================================================
