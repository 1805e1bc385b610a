------------------------------ MODULE WalletFile ------------------------------
(***************************************************************************)
(* scripts/lib/env-persistence.ts and create-wallets.ts: the two private   *)
(* keys of the live scripts are generated once and added to a .env file    *)
(* that the operator edits too.  A run inspects the file, reads it,        *)
(* generates what is missing, writes a sibling, checks that the file is    *)
(* still the one it read and renames the sibling over it.  Several runs    *)
(* and the operator's editor may be at work at once.                       *)
(***************************************************************************)
EXTENDS Integers, FiniteSets

CONSTANTS
    Runs,       \* runs of create-wallets
    MaxEdits,   \* bound: times the operator writes the file
    Faults      \* what may go wrong: crash, disk, cast

VARIABLES
    env,        \* what .env resolves to: its state, its keys, its other lines
    stamp,      \* its identity: device, inode, size and time of the last write
    siblings,   \* the runs whose temporary file lies beside it
    wallet      \* the runs

walletVars == <<env, stamp, siblings, wallet>>

Roles == {"A", "B"}
None == <<>>
Junk == <<"junk">>
ByHand == <<"hand">>        \* the one key the operator may paste
Keys == {None, Junk, ByHand} \cup (Runs \X Roles)

Empty == [r \in Roles |-> None]
States == {"missing", "private", "refused"}

Idle == [at |-> "start", identity |-> 0, existed |-> FALSE, keys |-> Empty,
         content |-> [keys |-> Empty, lines |-> 0], checked |-> 0]

Init ==
    /\ env \in [state : States, keys : [Roles -> {None, Junk, ByHand}], lines : {0, 1}]
    /\ env.state = "missing" => env.keys = Empty /\ env.lines = 0
    /\ stamp = 1
    /\ siblings = {}
    /\ wallet = [p \in Runs |-> Idle]

At(p, place) == wallet[p].at = place
Stop(p, how) == wallet' = [wallet EXCEPT ![p].at = how]

-----------------------------------------------------------------------------
(* One run of updateWalletEnv. *)

\* prepareTarget: what may not hold private keys is refused ("refused" stands
\* for a dangling link, a directory, another user's file, a parent others can
\* write, a filesystem without private modes); the identity is taken first.
Inspect(p) ==
    /\ At(p, "start")
    /\ CASE env.state = "refused" -> Stop(p, "failed")
         [] env.state = "missing" -> wallet' = [wallet EXCEPT ![p].at = "prepared"]
         [] OTHER -> wallet' = [wallet EXCEPT ![p].at = "stated", ![p].existed = TRUE,
                                              ![p].identity = stamp]
    /\ UNCHANGED <<env, stamp, siblings>>

BadRead(p) ==
    /\ At(p, "stated")
    /\ IF env.state = "missing"
       THEN Stop(p, "failed")
       ELSE wallet' = [wallet EXCEPT ![p].at = "prepared", ![p].identity = stamp,
                                     ![p].content = [keys |-> Empty, lines |-> env.lines]]
    /\ UNCHANGED <<env, stamp, siblings>>

\* ... and the content after it.
Read(p) ==
    /\ At(p, "stated")
    /\ IF env.state = "missing"
       THEN Stop(p, "failed")
       ELSE wallet' = [wallet EXCEPT ![p].at = "prepared",
                                     ![p].content = [keys |-> env.keys, lines |-> env.lines]]
    /\ UNCHANGED <<env, stamp, siblings>>

\* The keys of the run: those found, and new ones for the roles without one.
Chosen(p) ==
    [r \in Roles |-> IF wallet[p].content.keys[r] = None THEN <<p, r>>
                                                         ELSE wallet[p].content.keys[r]]

BadAcceptable(keys) == Junk \notin {keys[r] : r \in Roles}
\* readKey and assertDistinct
Acceptable(keys) ==
    /\ Junk \notin {keys[r] : r \in Roles}
    /\ keys["A"] # keys["B"]

\* Keys are generated by cast, which may fail; nothing is written when both were found.
Generate(p) ==
    /\ At(p, "prepared")
    /\ LET keys == Chosen(p)
           missing == {r \in Roles : wallet[p].content.keys[r] = None} IN
       \/ /\ ~Acceptable(keys) \/ (missing # {} /\ "cast" \in Faults)
          /\ Stop(p, "failed")
       \/ /\ Acceptable(keys)
          /\ wallet' = [wallet EXCEPT ![p].at = IF missing # {} \/ ~wallet[p].existed THEN "write" ELSE "done",
                                      ![p].keys = keys,
                                      ![p].content.keys = keys]
    /\ UNCHANGED <<env, stamp, siblings>>

\* atomicReplace: the sibling is created, filled and made durable.
Write(p) ==
    /\ At(p, "write")
    /\ \/ siblings' = siblings \cup {p} /\ Stop(p, "written")
       \/ "disk" \in Faults /\ Stop(p, "failed") /\ UNCHANGED siblings
    /\ UNCHANGED <<env, stamp>>

\* assertTargetUnchanged
Unchanged(p) ==
    IF wallet[p].existed THEN env.state = "private" /\ stamp = wallet[p].identity
                         ELSE env.state = "missing"

Check(p) ==
    /\ At(p, "written")
    /\ IF Unchanged(p)
       THEN /\ wallet' = [wallet EXCEPT ![p].at = "checked", ![p].checked = stamp]
            /\ UNCHANGED siblings
       ELSE Stop(p, "failed") /\ siblings' = siblings \ {p}
    /\ UNCHANGED <<env, stamp>>

\* The rename replaces whatever is there by then.
Rename(p) ==
    /\ At(p, "checked")
    /\ siblings' = siblings \ {p}
    /\ \/ /\ env' = [state |-> "private", keys |-> wallet[p].content.keys,
                     lines |-> wallet[p].content.lines]
          /\ stamp' = stamp + 1
          /\ Stop(p, "done")
       \/ "disk" \in Faults /\ Stop(p, "failed") /\ UNCHANGED <<env, stamp>>

Crash(p) ==
    /\ "crash" \in Faults
    /\ wallet[p].at \notin {"start", "done", "failed"}
    /\ Stop(p, "crashed")
    /\ UNCHANGED <<env, stamp, siblings>>

-----------------------------------------------------------------------------
(* The operator: writes a line, pastes or removes a key, moves the file away. *)

Edit ==
    /\ stamp <= MaxEdits
    /\ \/ env' = [env EXCEPT !.state = "private", !.lines = @ + 1]
       \/ \E r \in Roles, k \in {None, ByHand} :
             env' = [env EXCEPT !.state = "private", !.keys[r] = k]
       \/ env' = [env EXCEPT !.state = "missing", !.keys = Empty, !.lines = 0]
    /\ env' # env
    /\ stamp' = stamp + 1
    /\ UNCHANGED <<siblings, wallet>>

Next ==
    \/ \E p \in Runs : \/ Inspect(p) \/ Read(p) \/ Generate(p)
                       \/ Write(p) \/ Check(p) \/ Rename(p) \/ Crash(p)
    \/ Edit

Spec == Init /\ [][Next]_walletVars

-----------------------------------------------------------------------------
(* Properties *)

\* Types: a temporary file lies beside .env only between its writing and the
\* rename, or where a run was killed.
WalletTypeOK ==
    /\ env \in [state : States, keys : [Roles -> Keys], lines : Nat]
    /\ stamp \in Nat
    /\ siblings \subseteq Runs
    /\ \A p \in Runs :
          /\ wallet[p].at \in {"start", "stated", "prepared", "write", "written", "checked",
                               "done", "failed", "crashed"}
          /\ p \in siblings => wallet[p].at \in {"written", "checked", "crashed"}

\* A file that is replaced keeps every key and every line it had, unless it was
\* written between the run's check and its rename: whatever is written before
\* the check, while the run reads, generates or writes its sibling, is noticed.
KeepsWhatWasThere ==
    \A p \in Runs :
        At(p, "checked") /\ wallet'[p].at = "done"
        /\ stamp = wallet[p].checked /\ env.state = "private" =>
            /\ \A r \in Roles : env.keys[r] # None => env'.keys[r] = env.keys[r]
            /\ env'.lines = env.lines
NothingOverwritten == [][KeepsWhatWasThere]_walletVars

\* The addresses a run has printed are of two different valid keys, and a run
\* that was not overtaken by another write printed the keys the file holds.
PrintedKeysAreStored ==
    \A p \in Runs : At(p, "done") =>
        /\ Junk \notin {wallet[p].keys[r] : r \in Roles}
        /\ wallet[p].keys["A"] # wallet[p].keys["B"]
        /\ stamp = (IF wallet[p].checked = 0 THEN wallet[p].identity ELSE wallet[p].checked + 1)
              => env.keys = wallet[p].keys
=============================================================================
