------------------------------ MODULE LiveRefresh ------------------------------
(***************************************************************************)
(* ui/src: the dashboard shows an accepted snapshot of one deal beside what*)
(* the public RPC says now.  A refresh asks for a dozen values in two      *)
(* groups, none of them at a fixed block (rpc.ts), compares each with the  *)
(* snapshot and shows MATCH or DIFF, or, when a read fails, the last       *)
(* successful observation as STALE (live-state.ts, main.ts).               *)
(***************************************************************************)
EXTENDS Integers, Sequences, FiniteSets

CONSTANTS
    MaxBlocks,      \* bound: changes on the target chain, one to a block
    MaxRefreshes,   \* bound: refreshes begun
    Levels,         \* the scores the borrower may have, as 0..n
    Faults          \* what may go wrong: rpc

VARIABLES
    heads,      \* the target chain: the borrower's and the deal's state after each change
    view,       \* LiveObservationState
    refreshes       \* the refreshes: what each has read, and the changes it spans

refreshVars == <<heads, view, refreshes>>

-----------------------------------------------------------------------------
(* The target chain: the deal of the snapshot, and other deals of its borrower. *)

Tip == heads[Len(heads)]
LimitAt(level) == level + 2
Used(h) == h.reserved + h.exposure

\* The deal is financed at first; its repayment raises the score to the accepted one.
Init ==
    /\ heads = <<[paid |-> FALSE, score |-> 0, reserved |-> 0, exposure |-> 1]>>
    /\ view = [kind |-> "idle", last |-> <<>>]
    /\ refreshes = <<>>

Others(h) == h.exposure - (IF h.paid THEN 0 ELSE 1)
Successors(h) ==
    (IF Used(h) < LimitAt(h.score) THEN {[h EXCEPT !.reserved = @ + 1]} ELSE {})
    \cup (IF h.reserved > 0
          THEN {[h EXCEPT !.reserved = @ - 1], [h EXCEPT !.reserved = @ - 1, !.exposure = @ + 1]}
          ELSE {})
    \cup (IF h.paid THEN {} ELSE {[h EXCEPT !.paid = TRUE, !.exposure = @ - 1, !.score = @ + 1]})
    \cup (IF Others(h) > 0
          THEN {[h EXCEPT !.exposure = @ - 1, !.score = @ + 1], [h EXCEPT !.exposure = @ - 1],
                [h EXCEPT !.score = @ - 1]}
          ELSE {})

Block ==
    /\ Len(heads) < MaxBlocks
    /\ \E h \in {s \in Successors(Tip) : s.score \in Levels} : heads' = Append(heads, h)
    /\ UNCHANGED <<view, refreshes>>

-----------------------------------------------------------------------------
(* rpc.ts: readLiveState *)

First == {"block", "deal"}
Second == {"evidence", "score", "limit", "available", "reserved", "exposure"}
Fields == First \cup Second

\* What the chain answers when a field is asked for.
Answer(f) ==
    CASE f = "block" -> Len(heads)
      [] f \in {"deal", "evidence"} -> IF Tip.paid THEN 1 ELSE 0
      [] f = "score" -> Tip.score
      [] f = "limit" -> LimitAt(Tip.score)
      [] f = "available" -> LimitAt(Tip.score) - Used(Tip)
      [] f = "reserved" -> Tip.reserved
      [] f = "exposure" -> Tip.exposure

\* The accepted snapshot: the deal paid on time and nothing open beside it.
AcceptedScore == 1
ACCEPTED_SNAPSHOT ==
    [deal |-> 1, evidence |-> 1, score |-> AcceptedScore, limit |-> LimitAt(AcceptedScore),
     available |-> LimitAt(AcceptedScore), reserved |-> 0, exposure |-> 0]

BadDifferences(value) ==
    {f \in {"deal", "evidence", "score", "limit", "exposure"} :
        value[f] # ACCEPTED_SNAPSHOT[f]}

\* compareLiveToAcceptedSnapshot
Differences(value) == {f \in DOMAIN ACCEPTED_SNAPSHOT : value[f] # ACCEPTED_SNAPSHOT[f]}

InFlight(k) == refreshes[k].at = "reading"

\* Within a group the answers come in any order, each of its own moment.
Ask(k, f) ==
    /\ InFlight(k)
    /\ f \notin DOMAIN refreshes[k].got
    /\ f \in Second => First \subseteq DOMAIN refreshes[k].got
    /\ refreshes' = [refreshes EXCEPT ![k].got =
                    [g \in DOMAIN @ \cup {f} |-> IF g = f THEN Answer(f) ELSE @[g]]]
    /\ UNCHANGED <<heads, view>>

-----------------------------------------------------------------------------
(* live-state.ts and main.ts *)

\* The button is disabled while the state rendered last is "loading".
Disabled == view.kind = "loading"

\* The page's own first refresh, and a click; what was read last is kept.
Refresh ==
    /\ ~Disabled
    /\ Len(refreshes) < MaxRefreshes
    /\ refreshes' = Append(refreshes, [at |-> "reading", got |-> <<>>, from |-> Len(heads), to |-> 0])
    /\ view' = [view EXCEPT !.kind = "loading"]
    /\ UNCHANGED heads

Complete(k) ==
    /\ InFlight(k)
    /\ DOMAIN refreshes[k].got = Fields
    /\ view' = [kind |-> "fresh",
                last |-> <<[read |-> k, value |-> refreshes[k].got,
                            differences |-> Differences(refreshes[k].got)]>>]
    /\ refreshes' = [refreshes EXCEPT ![k].at = "done", ![k].to = Len(heads)]
    /\ UNCHANGED heads

\* One answer failed, or a label or the chain id was not the expected one.
Fail(k) ==
    /\ "rpc" \in Faults
    /\ InFlight(k)
    /\ view' = [view EXCEPT !.kind = IF view.last = <<>> THEN "unavailable" ELSE "stale"]
    /\ refreshes' = [refreshes EXCEPT ![k].at = "failed", ![k].got = <<>>]
    /\ UNCHANGED heads

Next ==
    \/ Block \/ Refresh
    \/ \E k \in DOMAIN refreshes : \/ \E f \in Fields : Ask(k, f)
                               \/ Complete(k) \/ Fail(k)

Spec == Init /\ [][Next]_refreshVars

-----------------------------------------------------------------------------
(* Properties *)

\* The states of the panel, with one refresh in flight exactly while it loads.
RefreshTypeOK ==
    /\ view.kind \in {"idle", "loading", "fresh", "stale", "unavailable"}
    /\ Cardinality({k \in DOMAIN refreshes : InFlight(k)}) = (IF view.kind = "loading" THEN 1 ELSE 0)
    /\ view.kind \in {"fresh", "stale"} => view.last # <<>>
    /\ view.kind \in {"idle", "unavailable"} => view.last = <<>>

\* What is shown, fresh or stale, is all of one read: the last that succeeded,
\* with the block it was asked at, never an older one or a mixture of two.
ShownIsTheLastSuccess ==
    LET done == {k \in DOMAIN refreshes : refreshes[k].at = "done"} IN
    IF done = {} THEN view.last = <<>>
    ELSE /\ view.last[1].read = CHOOSE k \in done : \A j \in done : j <= k
         /\ view.last[1].value = refreshes[view.last[1].read].got

\* MATCH was true: though every value is of its own moment, when at most one change
\* fell into a refresh that shows no difference, the chain was in the accepted state
\* before it or after it.  (Of two changes in one block the chain shows the last only.)
Matches(h) == h.paid /\ h.score = AcceptedScore /\ Used(h) = 0
MatchWasTrue ==
    view.last # <<>> /\ view.last[1].differences = {} =>
        LET read == refreshes[view.last[1].read] IN
        read.to - read.from <= 1 => \E b \in read.from..read.to : Matches(heads[b])

\* What the dashboard shows was so.
ShownIsTrue == RefreshTypeOK /\ ShownIsTheLastSuccess /\ MatchWasTrue
=============================================================================
