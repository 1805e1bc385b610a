----------------------------- MODULE Deployments -----------------------------
(***************************************************************************)
(* scripts/deploy-gateway.ts, deploy-verifier.ts and deploy-deals.ts: each *)
(* reads its record under deployments/, deploys one contract with the key  *)
(* of wallet A and merges what it did into the record (lib/artifacts.ts).  *)
(* Different scripts may be at work at once, with the other scripts that   *)
(* spend wallet A's nonces; and the operator may delete the gateway's entry*)
(* to deploy a fresh one, as deploy-gateway tells him.                     *)
(***************************************************************************)
EXTENDS Integers, SequencesExt

CONSTANTS
    MaxNonce,   \* bound: transactions of wallet A on one chain
    MaxReads,   \* bound: times a script reads its record to begin
    Faults      \* what may go wrong: crash, other (another script's transaction)

Scripts == {"gateway", "verifier", "deals"}
None == 0
Torn == -1                      \* a record that no longer parses
Contracts == 1..MaxNonce        \* an address is the nonce it was deployed at

VARIABLES
    nonce,      \* wallet A's next nonce on the source and on the target chain
    trusts,     \* per script, what each contract it deployed was built with
    source,     \* deployments/sepolia.json: the gateway
    target,     \* deployments/creditcoin.json
    script,     \* the script of each kind that is running
    reads,      \* (bound) times a script began
    guarded     \* (history) the nonce each registry was guarded for

deployVars == <<nonce, trusts, source, target, script, reads, guarded>>

Blank(torn) == [verifier |-> None, sourceGateway |-> None, previousVerifiers |-> <<>>,
                deals |-> None, previousDeals |-> <<>>, torn |-> torn]
NoRecord == Blank(FALSE)
Off == [at |-> "off", existing |-> NoRecord, gateway |-> None, predicted |-> None,
        address |-> None, current |-> NoRecord]

Init ==
    /\ nonce \in [{"source", "target"} -> 1..2]
    /\ trusts = [s \in Scripts |-> <<>>]
    /\ source = None
    /\ target = NoRecord
    /\ script = [s \in Scripts |-> Off]
    /\ reads = 0
    /\ guarded = <<>>

ChainOf(s) == IF s = "gateway" THEN "source" ELSE "target"
At(s, place) == script[s].at = place
Put(f, k, v) == [x \in DOMAIN f \cup {k} |-> IF x = k THEN v ELSE f[x]]

-----------------------------------------------------------------------------
(* The scripts *)

\* What each finds recorded, and what makes it stop before it sends anything:
\* its predecessor is missing, or it ran before and no REDEPLOY_REASON is given.
Allowed(s, reason) ==
    CASE s = "gateway" -> source = None
      [] s = "verifier" -> source \notin {None, Torn} /\ (target.verifier = None \/ reason)
      [] s = "deals" -> target.verifier # None /\ (target.deals = None \/ reason)

\* deploy-deals reads the gateway from the verifier, not from the record.
Begin(s, reason) ==
    /\ At(s, "off")
    /\ reads < MaxReads
    /\ reads' = reads + 1
    /\ s # "gateway" => ~target.torn
    /\ Allowed(s, reason)
    /\ script' = [script EXCEPT ![s] =
         [Off EXCEPT !.at = "read", !.existing = target,
                     !.gateway = IF s = "deals" THEN trusts["verifier"][target.verifier]
                                                ELSE source]]
    /\ UNCHANGED <<nonce, trusts, source, target, guarded>>

\* The addresses a new contract must not share.
Taken(s, address) ==
    \/ s # "gateway" /\ address = script[s].gateway
    \/ s = "deals" /\ address = script[s].existing.verifier

Guard(s) ==
    /\ At(s, "read")
    /\ LET predicted == nonce[ChainOf(s)] IN
       IF Taken(s, predicted)
       THEN script' = [script EXCEPT ![s] = Off]
       ELSE script' = [script EXCEPT ![s].at = "guarded", ![s].predicted = predicted]
    /\ UNCHANGED <<nonce, trusts, source, target, reads, guarded>>

Deploy(s) ==
    /\ At(s, "guarded")
    /\ nonce[ChainOf(s)] <= MaxNonce
    /\ LET address == nonce[ChainOf(s)]
           built == IF s = "deals" THEN script[s].existing.verifier ELSE script[s].gateway IN
       /\ trusts' = [trusts EXCEPT ![s] = Put(@, address, built)]
       /\ guarded' = IF s = "deals" THEN Put(guarded, address, script[s].predicted) ELSE guarded
       /\ script' = [script EXCEPT ![s].at = "sent", ![s].address = address]
    /\ nonce' = [nonce EXCEPT ![ChainOf(s)] = @ + 1]
    /\ UNCHANGED <<source, target, reads>>

BadRecheck(s) == TRUE
\* What is read back from the chain.  Only deploy-verifier looks at the address again.
Recheck(s) == s = "verifier" => script[s].address # script[s].gateway

Confirm(s) ==
    /\ At(s, "sent")
    /\ script' = IF Recheck(s) THEN [script EXCEPT ![s].at = "confirmed"]
                               ELSE [script EXCEPT ![s] = Off]
    /\ UNCHANGED <<nonce, trusts, source, target, reads, guarded>>

\* writeDeployment reads the record once more before it merges.
ReadAgain(s) ==
    /\ At(s, "confirmed")
    /\ script' = IF s # "gateway" /\ target.torn
                 THEN [script EXCEPT ![s] = Off]
                 ELSE [script EXCEPT ![s].at = "merging", ![s].current = target]
    /\ UNCHANGED <<nonce, trusts, source, target, reads, guarded>>

\* The merged record: what is superseded comes from the first read.
Entries(s) ==
    LET existing == script[s].existing
        kept(old, current) == IF current = None THEN old ELSE Append(old, current) IN
    IF s = "verifier"
    THEN [script[s].current EXCEPT !.verifier = script[s].address,
            !.sourceGateway = script[s].gateway,
            !.previousVerifiers = kept(existing.previousVerifiers, existing.verifier)]
    ELSE [script[s].current EXCEPT !.deals = script[s].address,
            !.previousDeals = kept(existing.previousDeals, existing.deals)]

Record(s) ==
    /\ At(s, "merging")
    /\ IF s = "gateway" THEN source' = script[s].address /\ UNCHANGED target
                        ELSE target' = Entries(s) /\ UNCHANGED source
    /\ script' = [script EXCEPT ![s] = Off]
    /\ UNCHANGED <<nonce, trusts, reads, guarded>>

\* A script is killed; one killed while it writes leaves a file that no longer parses.
Crash(s) ==
    /\ "crash" \in Faults
    /\ ~At(s, "off")
    /\ script' = [script EXCEPT ![s] = Off]
    /\ \/ UNCHANGED <<source, target>>
       \/ /\ At(s, "merging")
          /\ IF s = "gateway" THEN source' = Torn /\ UNCHANGED target
                              ELSE target' = Blank(TRUE) /\ UNCHANGED source
    /\ UNCHANGED <<nonce, trusts, reads, guarded>>

\* Another script spends a nonce of wallet A.
Other ==
    /\ "other" \in Faults
    /\ \E c \in {"source", "target"} :
          nonce[c] < MaxNonce /\ nonce' = [nonce EXCEPT ![c] = @ + 1]
    /\ UNCHANGED <<trusts, source, target, script, reads, guarded>>

\* "Delete that entry to deploy a fresh one": the verifiers on record stay as they are.
DeleteGateway ==
    /\ source # None
    /\ source' = None
    /\ UNCHANGED <<nonce, trusts, target, script, reads, guarded>>

Next ==
    \/ \E s \in Scripts :
          \/ \E reason \in BOOLEAN : Begin(s, reason)
          \/ Guard(s) \/ Deploy(s) \/ Confirm(s) \/ ReadAgain(s) \/ Record(s) \/ Crash(s)
    \/ Other
    \/ DeleteGateway

Spec == Init /\ [][Next]_deployVars

-----------------------------------------------------------------------------
(* Properties *)

\* Types: only contracts that were deployed are recorded, each in its own place.
DeployTypeOK ==
    /\ nonce \in [{"source", "target"} -> 1..(MaxNonce + 1)]
    /\ \A s \in Scripts : DOMAIN trusts[s] \subseteq Contracts
    /\ source \in DOMAIN trusts["gateway"] \cup {None, Torn}
    /\ {target.verifier} \cup ToSet(target.previousVerifiers) \subseteq DOMAIN trusts["verifier"] \cup {None}
    /\ {target.deals} \cup ToSet(target.previousDeals) \subseteq DOMAIN trusts["deals"] \cup {None}
    /\ \A s \in Scripts : script[s].at \in {"off", "read", "guarded", "sent", "confirmed", "merging"}

Verifiers(record) == {record.verifier} \cup ToSet(record.previousVerifiers)

\* The recorded verifier has another address than the gateway it trusts, though other
\* transactions move the nonce after its guard.  The recorded registry, whose address
\* is not looked at again, has another than the gateway its facts come from as long as
\* no transaction moved the nonce after its guard: nothing is said of one that did.
NamesApart ==
    /\ target.verifier # None => target.verifier # trusts["verifier"][target.verifier]
    /\ target.deals # None /\ guarded[target.deals] = target.deals =>
          target.deals # trusts["verifier"][trusts["deals"][target.deals]]

\* The facts behind a deal can be looked up: the verifier a recorded registry trusts
\* is still in the record, whatever else was merged since; and the gateway recorded
\* beside the verifier is the one it trusts, though another may be on record on the
\* source chain by now.
RegistryIsTraceable ==
    /\ target.deals # None => trusts["deals"][target.deals] \in Verifiers(target)
    /\ target.verifier # None => target.sourceGateway = trusts["verifier"][target.verifier]

\* What the records say of the chains is so.
RecordsAreSound == DeployTypeOK /\ NamesApart /\ RegistryIsTraceable
=============================================================================
