--------------------------------- MODULE Probe ---------------------------------
(***************************************************************************)
(* scripts/probe.ts: it measures the live networks section by section,     *)
(* while a task beside it samples how far attestation trails the source    *)
(* head, and derives from both the attestationGracePeriod a registry is    *)
(* deployed with.  The second half is that registry's clock: what the      *)
(* constant is for is that a deal paid in time is not marked defaulted     *)
(* while its proof is on the way.                                          *)
(***************************************************************************)
EXTENDS Integers, Sequences, FiniteSetsExt

CONSTANTS
    Interval, MaxCatchup,               \* of the network: the attestation's step and longest leap
    DefaultInterval, DefaultCatchup,    \* what the probe takes when it could not read them
    SUBMISSION_ALLOWANCE_BLOCKS,        \* source blocks the worker has to prove and submit
    BlocksPerHour, BatchLimit, batchMax, lagSamples,
    MaxHead, MaxSampled,                \* bounds: source blocks, and those while sampling
    Faults                              \* what may go wrong: rpc

VARIABLES
    head,       \* of the source chain
    attested,   \* the height attested on the target chain
    section,    \* the report: pending, done, failed
    probe,      \* main: where it is and what it found
    lag,        \* the sampling task
    deal        \* a deal of the registry deployed with the constant

probeVars == <<head, attested, section, probe, lag, deal>>

Sections == {"endpoints", "registry", "attestation", "lag", "verify", "gasSingle",
             "gasBatch", "emit", "decode", "grace"}
Unknown == -1
Greater(a, b) == IF a > b THEN a ELSE b

Init ==
    /\ head = Interval /\ attested = Interval
    /\ section = [s \in Sections |-> "pending"]
    /\ probe = [at |-> "endpoints", interval |-> Unknown, catchup |-> Unknown, single |-> "none",
                confirmed |-> FALSE, grace |-> Unknown]
    /\ lag = [at |-> "off", samples |-> <<>>, head |-> Unknown, attested |-> Unknown]
    /\ deal = [due |-> Unknown, paid |-> Unknown, seen |-> Unknown, applied |-> FALSE]

-----------------------------------------------------------------------------
(* The networks.  A backlog is no longer than the constant is derived for:   *)
(* while the probe runs one interval, later the measured lag and one leap.   *)

MaxLag == Max({s.head - s.attested : s \in {lag.samples[k] : k \in DOMAIN lag.samples}})
Backlog == IF probe.grace = Unknown THEN 2 * Interval ELSE MaxLag + MaxCatchup

\* Nobody reads the clock before the sampling or between it and the deal.
ClockIsRead == lag.at = "running" \/ deal.due # Unknown

\* The worker keeps to its allowance: no block passes it while a payment waits.
SourceBlock ==
    /\ ClockIsRead /\ head < IF deal.due = Unknown THEN MaxSampled ELSE MaxHead
    /\ head + 1 - attested <= Backlog
    /\ deal.seen # Unknown /\ ~deal.applied => head < deal.seen + SUBMISSION_ALLOWANCE_BLOCKS
    /\ head' = head + 1
    /\ UNCHANGED <<attested, section, probe, lag, deal>>

Attest ==
    /\ ClockIsRead
    /\ \E n \in 1..MaxHead :
          /\ n * Interval <= Greater(MaxCatchup, Interval)
          /\ attested + n * Interval <= head
          /\ attested' = attested + n * Interval
    /\ deal' = IF deal.paid # Unknown /\ deal.seen = Unknown /\ attested' >= deal.paid
               THEN [deal EXCEPT !.seen = head] ELSE deal
    /\ UNCHANGED <<head, section, probe, lag>>

-----------------------------------------------------------------------------
(* sampleLag: the attested height and the head are asked for together, and   *)
(* answered in either order.                                                 *)

AskAttested ==
    /\ lag.at = "running" /\ lag.attested = Unknown
    /\ lag' = [lag EXCEPT !.attested = attested]
    /\ UNCHANGED <<head, attested, section, probe, deal>>

AskHead ==
    /\ lag.at = "running" /\ lag.head = Unknown
    /\ lag' = [lag EXCEPT !.head = head]
    /\ UNCHANGED <<head, attested, section, probe, deal>>

Sample ==
    /\ lag.at = "running" /\ lag.head # Unknown /\ lag.attested # Unknown
    /\ lag' = [lag EXCEPT !.samples = Append(@, [head |-> lag.head, attested |-> lag.attested]),
                          !.head = Unknown, !.attested = Unknown,
                          !.at = IF Len(lag.samples) + 1 = lagSamples THEN "done" ELSE @]
    /\ UNCHANGED <<head, attested, section, probe, deal>>

SamplingFails ==
    /\ "rpc" \in Faults
    /\ lag.at = "running"
    /\ lag' = [lag EXCEPT !.at = "failed"]
    /\ section' = [section EXCEPT !["lag"] = "failed"]
    /\ UNCHANGED <<head, attested, probe, deal>>

-----------------------------------------------------------------------------
(* main *)

Sequence == <<"endpoints", "registry", "attestation", "single", "batch", "emit", "decode",
              "grace", "finished">>
After(place) == LET k == CHOOSE i \in DOMAIN Sequence : Sequence[i] = place IN Sequence[k + 1]
At(place) == probe.at = place
Report(ids, state) == section' = [s \in Sections |-> IF s \in ids THEN state ELSE section[s]]

\* A wrong chain or an unregistered one ends the probe; the registry says so.
Connect ==
    /\ probe.at \in {"endpoints", "registry"}
    /\ \/ /\ Report({probe.at}, "done")
          /\ probe' = [probe EXCEPT !.at = After(@)]
       \/ /\ "rpc" \in Faults
          /\ section' \in {section} \cup
                (IF At("registry") THEN {[section EXCEPT !["registry"] = "failed"]} ELSE {})
          /\ probe' = [probe EXCEPT !.at = "aborted"]
    /\ UNCHANGED <<head, attested, lag, deal>>

\* Without a stored override the runtime's default leap is what is meant; the
\* sampling task starts whether the parameters could be read or not.
Attestation ==
    /\ At("attestation")
    /\ \/ /\ probe' = [probe EXCEPT !.at = After(@), !.interval = Interval, !.catchup = MaxCatchup]
          /\ Report({"attestation"}, "done")
       \/ /\ "rpc" \in Faults
          /\ probe' = [probe EXCEPT !.at = After(@)]
          /\ Report({"attestation"}, "failed")
    /\ lag' = [lag EXCEPT !.at = "running"]
    /\ UNCHANGED <<head, attested, deal>>

\* One to three transactions of one block below the prover's height are proven
\* and called; the best of the results is what the other sections work on.  A
\* call on a proof may fail without ending the section, a proof may not.
Verified == {"measured"} \cup IF "rpc" \in Faults THEN {"verified", "proven"} ELSE {}

Single ==
    /\ At("single")
    /\ \/ \E best \in Verified :
             /\ probe' = [probe EXCEPT !.at = After(@), !.single = best]
             /\ section' = [section EXCEPT
                  !["gasSingle"] = "done",
                  !["verify"] = IF best = "proven" THEN "failed" ELSE "done"]
       \/ /\ "rpc" \in Faults
          /\ Report({"verify", "gasSingle"}, "failed")
          /\ probe' = [probe EXCEPT !.at = After(@)]
    /\ UNCHANGED <<head, attested, lag, deal>>

\* Of the batches of growing size the last is one over the documented limit, on
\* purpose: whatever made it fail, the report says that confirms the limit.
Confirmed(failed) == failed \/ BatchLimit <= batchMax
Rejected == {FALSE} \cup IF "rpc" \in Faults THEN {TRUE} ELSE {}

Batch ==
    /\ At("batch")
    /\ \/ \E failed \in Rejected :
             /\ probe' = [probe EXCEPT !.at = After(@), !.confirmed = Confirmed(failed)]
             /\ Report({"gasBatch"}, "done")
       \/ /\ "rpc" \in Faults
          /\ Report({"gasBatch"}, "failed")
          /\ probe' = [probe EXCEPT !.at = After(@)]
    /\ UNCHANGED <<head, attested, lag, deal>>

\* What the two sections on a proven transaction need of it.
Measured(id) ==
    IF id = "emit" THEN probe.single = "measured" ELSE probe.single # "none"

OnSample(id) ==
    /\ At(id)
    /\ \/ /\ Measured(id)
          /\ Report({id}, "done")
       \/ /\ ~Measured(id) \/ "rpc" \in Faults
          /\ Report({id}, "failed")
    /\ probe' = [probe EXCEPT !.at = After(@)]
    /\ UNCHANGED <<head, attested, lag, deal>>

Rounded(n) ==
    Greater(BlocksPerHour, ((n + BlocksPerHour - 1) \div BlocksPerHour) * BlocksPerHour)
BadGracePeriod(maxLagBlocks, attestationInterval, maxCatchup) ==
    Rounded(maxLagBlocks + attestationInterval + SUBMISSION_ALLOWANCE_BLOCKS)
deriveGracePeriod(maxLagBlocks, attestationInterval, maxCatchup) ==
    Rounded(maxCatchup + maxLagBlocks + attestationInterval + SUBMISSION_ALLOWANCE_BLOCKS)

Known(found, default) == IF found = Unknown THEN default ELSE found

\* The sampling is awaited last; without it nothing is said of the grace period.
Grace ==
    /\ At("grace")
    /\ lag.at \in {"done", "failed"}
    /\ IF lag.at = "done"
       THEN /\ probe' = [probe EXCEPT !.at = After(@), !.grace =
                  deriveGracePeriod(MaxLag, Known(probe.interval, DefaultInterval),
                                    Known(probe.catchup, DefaultCatchup))]
            /\ Report({"lag", "grace"}, "done")
       ELSE probe' = [probe EXCEPT !.at = After(@)] /\ UNCHANGED section
    /\ UNCHANGED <<head, attested, lag, deal>>

-----------------------------------------------------------------------------
(* A deal of a registry deployed with the constant of a report whose other   *)
(* measurements, on which it does not depend, were made; the worker applies  *)
(* its payment once the block of the payment is attested.                    *)

Create ==
    /\ probe.grace # Unknown /\ deal.due = Unknown
    /\ \A s \in Sections \ {"attestation"} : section[s] = "done"
    /\ probe.confirmed
    /\ \E due \in head..(head + 1) : deal' = [deal EXCEPT !.due = due]
    /\ UNCHANGED <<head, attested, section, probe, lag>>

Pay ==
    /\ deal.due # Unknown /\ deal.paid = Unknown /\ head <= deal.due
    /\ deal' = [deal EXCEPT !.paid = head, !.seen = IF attested >= head THEN head ELSE @]
    /\ UNCHANGED <<head, attested, section, probe, lag>>

Apply ==
    /\ deal.seen # Unknown /\ ~deal.applied
    /\ deal' = [deal EXCEPT !.applied = TRUE]
    /\ UNCHANGED <<head, attested, section, probe, lag>>

Next ==
    \/ SourceBlock \/ Attest
    \/ AskAttested \/ AskHead \/ Sample \/ SamplingFails
    \/ Connect \/ Attestation \/ Single \/ Batch \/ Grace
    \/ \E id \in {"emit", "decode"} : OnSample(id)
    \/ Create \/ Pay \/ Apply

Spec == Init /\ [][Next]_probeVars

-----------------------------------------------------------------------------
(* Properties *)

\* Types: nothing is attested ahead of the chain, sampling is done when it has its
\* samples, and a grace period is derived at the end, from those.
ProbeTypeOK ==
    /\ attested \in Nat /\ attested <= head
    /\ section \in [Sections -> {"pending", "done", "failed"}]
    /\ lag.at = "done" <=> Len(lag.samples) = lagSamples
    /\ probe.grace # Unknown => At("finished") /\ lag.at = "done"

\* A finished report leaves no section unanswered but the grace period, and that
\* one only when the sampling failed; what a section was measured on was measured.
ReportIsWhole ==
    At("finished") =>
        /\ \A s \in Sections \ {"grace"} : section[s] # "pending"
        /\ section["grace"] = IF section["lag"] = "done" THEN "done" ELSE "pending"
        /\ section["emit"] = "done" => section["verify"] = "done"
        /\ section["decode"] = "done" => section["gasSingle"] = "done"

\* A deal paid in time cannot be marked defaulted before its payment is applied,
\* though attestation falls behind and leaps, provided the probe's parameters
\* were read, or are no smaller than the network's.
NoFabricatedDefault ==
    /\ deal.paid # Unknown
    /\ Known(probe.catchup, DefaultCatchup) >= MaxCatchup
    /\ attested > deal.due + probe.grace
    => deal.applied

\* What the probe leaves behind can be relied on, its failures included.
ReportIsSound == ProbeTypeOK /\ ReportIsWhole /\ NoFabricatedDefault
=============================================================================
