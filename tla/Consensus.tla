------------------------------- MODULE Consensus -------------------------------
(***************************************************************************)
(* What AI models answer and how a debate turns several answers into one   *)
(* list of decisions (DebateEngine, DecisionParser).                       *)
(*                                                                         *)
(* A decision is reduced to its symbol, its action, its confidence and     *)
(* whether it carries stops and an entry price.  An answer is what the     *)
(* parser keeps of a response: its overall confidence and its decisions.   *)
(* A call that failed, timed out or could not be parsed is Failed.         *)
(***************************************************************************)
EXTENDS Integers, Sequences, FiniteSets, SequencesExt, Lists, Sums

OpenActions  == {"open_long", "open_short"}
CloseActions == {"close_long", "close_short"}
Idle         == {"hold", "wait"}
Actions      == OpenActions \cup CloseActions \cup Idle
Modes        == {"majority_vote", "highest_confidence", "weighted_average", "unanimous"}

Decisions(symbols) ==
    [symbol : symbols, action : Actions, confidence : Int, stops : BOOLEAN, entry : BOOLEAN]

\* One answer; the constructor keeps an operand's decisions in their order.
Answer(overall, decisions) == [overall |-> overall, decisions |-> decisions]
Failed == Answer(0, <<>>)

\* The answers with at least one decision: an empty list counts as a failure.
Succeeded(answers) == Kept(answers, {a \in Range(answers) : a.decisions # <<>>})

\* Where the decisions of a debate were said: participant and number of the decision.
Places(said) == UNION {{i} \X DOMAIN said[i].decisions : i \in DOMAIN said}
At(said, p)  == said[p[1]].decisions[p[2]]

UpTo(p, q)      == p[1] < q[1] \/ (p[1] = q[1] /\ p[2] <= q[2])
FirstOf(places) == CHOOSE p \in places : \A q \in places : UpTo(p, q)
LastOf(places)  == CHOOSE p \in places : \A q \in places : UpTo(q, p)

\* A vote is counted for every place, whoever said it.
Ballots(said, s, act) ==
    {p \in Places(said) : At(said, p).symbol = s /\ At(said, p).action = act}
SymbolsOf(said) == {At(said, p).symbol : p \in Places(said)}
ActionsOn(said, s) == {act \in Actions : Ballots(said, s, act) # {}}

MeanConfidence(said, ballots) ==
    Total([p \in ballots |-> At(said, p).confidence], ballots) \div Cardinality(ballots)

\* A copy of the first ballot's decision with the mean confidence of the voters.
Elected(said, ballots) ==
    [At(said, FirstOf(ballots)) EXCEPT !.confidence = MeanConfidence(said, ballots)]

-----------------------------------------------------------------------------
(* The four modes; each gives the set of final decisions.                   *)

\* Wrong variant of Carries: a symbol's largest group of ballots need not be a majority.
Carries_Plurality(said, s, act) ==
    \A other \in ActionsOn(said, s) :
        Cardinality(Ballots(said, s, other)) <= Cardinality(Ballots(said, s, act))

\* More than half of the ballots on the symbol; models that say nothing of it do not count.
Carries(said, s, act) ==
    LET all == UNION {Ballots(said, s, other) : other \in ActionsOn(said, s)}
    IN  2 * Cardinality(Ballots(said, s, act)) > Cardinality(all)

MajorityVote(said) ==
    {Elected(said, Ballots(said, p[1], p[2])) : p \in
        {p \in SymbolsOf(said) \X Actions : Ballots(said, p[1], p[2]) # {} /\ Carries(said, p[1], p[2])}}

\* The number of ballots equals the number of participants, whoever cast them.
Unanimous(said) ==
    {Elected(said, Ballots(said, p[1], p[2])) : p \in
        {p \in SymbolsOf(said) \X Actions : Cardinality(Ballots(said, p[1], p[2])) = Len(said)}}

\* Weight times confidence, summed; the last ballot's decision stands for its action,
\* and the action that was said first wins a tie.
Score(said, s, act) ==
    LET ballots == Ballots(said, s, act)
    IN  Total([p \in ballots |-> said[p[1]].overall * At(said, p).confidence], ballots)

Heaviest(said, s) ==
    LET best == {act \in ActionsOn(said, s) :
                    \A other \in ActionsOn(said, s) : Score(said, s, other) <= Score(said, s, act)}
    IN  CHOOSE act \in best :
            \A other \in best : UpTo(FirstOf(Ballots(said, s, act)), FirstOf(Ballots(said, s, other)))

WeightedAverage(said) ==
    {At(said, LastOf(Ballots(said, s, Heaviest(said, s)))) :
        s \in {t \in SymbolsOf(said) : Heaviest(said, t) \notin Idle}}

\* The decisions of the most confident participant, the first one in a tie.
HighestConfidence(said) ==
    LET best == {i \in DOMAIN said : \A j \in DOMAIN said : said[j].overall <= said[i].overall}
    IN  said[CHOOSE i \in best : \A j \in best : i <= j].decisions

\* The final decisions as a sequence.  The order of decisions of one kind follows the
\* votes in the code and is left open here.
Consensus(mode, said) ==
    CASE mode = "majority_vote"      -> SetToSeq(MajorityVote(said))
      [] mode = "unanimous"          -> SetToSeq(Unanimous(said))
      [] mode = "weighted_average"   -> SetToSeq(WeightedAverage(said))
      [] mode = "highest_confidence" -> HighestConfidence(said)
=============================================================================
