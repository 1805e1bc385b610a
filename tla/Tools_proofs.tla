---------------------------- MODULE Tools_proofs ----------------------------
(***************************************************************************)
(* Theorems about the tools that MCTools runs one at a time.  One part for *)
(* each tool: the wallet file, the deployment scripts, the page's refresh, *)
(* the network probe and the gate capture.  Each part states what its tool *)
(* keeps true beyond what it promises, and shows that every step of the    *)
(* tool keeps it; the last part puts them together into theorems of        *)
(* ToolsSpec.                                                              *)
(***************************************************************************)
EXTENDS MCTools, FoldLemmas

-----------------------------------------------------------------------------
(***************************************************************************)
(* The wallet file.                                                        *)
(* A run takes the identity of the file before it reads the content, and   *)
(* identities only grow: if the identity is still the current one, the run *)
(* has seen what is there, so nothing is lost and every key it prints is   *)
(* in the file it left.                                                    *)
(***************************************************************************)

Places == {"start", "stated", "prepared", "write", "written", "checked",
           "done", "failed", "crashed"}

Run == [at : Places, identity : Nat, existed : BOOLEAN, keys : [Roles -> Keys],
        content : [keys : [Roles -> Keys], lines : Nat], checked : Nat]

\* What each step may assume of the types; stamp is never 0, so that a run that
\* checked the file is told from one that did not.
Types ==
    /\ env \in [state : States, keys : [Roles -> Keys], lines : Nat]
    /\ stamp \in Nat \ {0}
    /\ wallet \in [Runs -> Run]
    /\ siblings \subseteq Runs
    /\ \A p \in siblings : wallet[p].at \in {"written", "checked", "crashed"}

\* The content a run will write has every line and every key of the file.
Agrees(p) ==
    /\ wallet[p].content.lines = env.lines
    /\ \A r \in Roles : env.keys[r] # None => wallet[p].content.keys[r] = env.keys[r]

\* What a run knows of the file, as long as its identity is the current one.
Sound(p) ==
    /\ wallet[p].existed => wallet[p].identity <= stamp
    /\ At(p, "start") => ~wallet[p].existed
    /\ wallet[p].at \in {"start", "stated", "prepared"} => wallet[p].checked = 0
    /\ At(p, "prepared") /\ wallet[p].existed /\ wallet[p].identity = stamp =>
          wallet[p].content = [keys |-> env.keys, lines |-> env.lines]
    /\ wallet[p].at \in {"write", "written", "checked"} =>
          /\ Acceptable(wallet[p].keys)
          /\ wallet[p].content.keys = wallet[p].keys
          /\ wallet[p].existed /\ wallet[p].identity = stamp => Agrees(p)
    /\ At(p, "checked") =>
          /\ 0 < wallet[p].checked /\ wallet[p].checked <= stamp
          /\ wallet[p].existed => wallet[p].checked = wallet[p].identity
          /\ ~wallet[p].existed /\ wallet[p].checked = stamp => env.state = "missing"
    /\ At(p, "done") =>
          /\ Acceptable(wallet[p].keys)
          /\ wallet[p].checked = 0 =>
                /\ wallet[p].existed
                /\ wallet[p].identity = stamp => env.keys = wallet[p].keys
          /\ wallet[p].checked # 0 =>
                /\ wallet[p].checked < stamp
                /\ stamp = wallet[p].checked + 1 => env.keys = wallet[p].keys

Inv == Types /\ \A p \in Runs : Sound(p)

-----------------------------------------------------------------------------
(* Steps of one run leave the others where they were; a write of the file    *)
(* makes every identity taken before it an old one.                          *)

\* What a run knows stays true while neither it nor the file changes.
LEMMA SoundIfStill ==
  ASSUME NEW p \in Runs, Sound(p), wallet'[p] = wallet[p], env' = env, stamp' = stamp
  PROVE  Sound(p)'
BY DEF Sound, At, Agrees, Acceptable

\* After a write by somebody else a run knows less, and nothing false.
LEMMA SoundIfOvertaken ==
  ASSUME NEW p \in Runs, Types, Sound(p), wallet'[p] = wallet[p], stamp' = stamp + 1
  PROVE  Sound(p)'
<1> DEFINE w == wallet[p]
<1>1. w.identity \in Nat /\ w.checked \in Nat /\ stamp \in Nat
  BY DEF Types, Run
<1>2. w.existed => w.identity <= stamp
  BY DEF Sound
<1>3. w.identity = stamp + 1 => ~w.existed
  BY <1>1, <1>2
<1>4. At(p, "checked") => 0 < w.checked /\ w.checked <= stamp
  BY DEF Sound
<1>5. At(p, "done") /\ w.checked # 0 => w.checked < stamp
  BY DEF Sound
<1>6. At(p, "done") /\ w.checked = 0 => w.existed
  BY DEF Sound
<1>7. w.existed => w.identity <= stamp + 1
  BY <1>1, <1>2
<1>8. At(p, "checked") => w.checked <= stamp + 1 /\ w.checked # stamp + 1
  BY <1>1, <1>4
<1>9. At(p, "done") /\ w.checked # 0 => w.checked < stamp + 1 /\ stamp + 1 # w.checked + 1
  BY <1>1, <1>5
<1> QED
  BY <1>3, <1>4, <1>6, <1>7, <1>8, <1>9 DEF Sound, At, Acceptable

\* A run that has no temporary file moves.
LEMMA TypesIfMoved ==
  ASSUME Types, NEW p \in Runs, NEW v \in Run, env' = env, stamp' = stamp,
         siblings' = siblings, wallet' = [wallet EXCEPT ![p] = v],
         wallet[p].at \notin {"written", "checked", "crashed"}
  PROVE  Types'
<1>1. p \notin siblings
  BY DEF Types
<1>2. \A q \in siblings : wallet'[q] = wallet[q]
  BY <1>1 DEF Types
<1>3. wallet' \in [Runs -> Run]
  BY DEF Types
<1> QED BY <1>2, <1>3 DEF Types

-----------------------------------------------------------------------------
(* The inductive step, one lemma for each action. *)

\* The first look takes the identity of the file.
LEMMA InspectStep ==
  ASSUME Inv, NEW p \in Runs, Inspect(p)
  PROVE  Inv'
<1>1. Types'
  <2> DEFINE w == wallet[p]
             v == IF env.state = "refused" THEN [w EXCEPT !.at = "failed"]
                  ELSE IF env.state = "missing" THEN [w EXCEPT !.at = "prepared"]
                  ELSE [w EXCEPT !.at = "stated", !.existed = TRUE, !.identity = stamp]
  <2>1. Types /\ w \in Run /\ w.at = "start"
    BY DEF Inv, Types, Inspect, At
  <2>2. v \in Run
    BY <2>1 DEF Run, Places, Types
  <2>3. wallet' = [wallet EXCEPT ![p] = v]
    BY <2>1 DEF Inspect, Stop, Types
  <2> QED BY <2>1, <2>2, <2>3, TypesIfMoved DEF Inspect
<1>2. ASSUME NEW q \in Runs PROVE Sound(q)'
  <2>1. CASE q = p
    <3>1. wallet \in [Runs -> Run] /\ At(p, "start") /\ Sound(p) /\ stamp \in Nat
      BY DEF Inv, Types, Inspect
    <3> QED BY <2>1, <3>1 DEF Inspect, Stop, At, Sound, Run
  <2>2. CASE q # p
    <3>1. wallet'[q] = wallet[q] /\ env' = env /\ stamp' = stamp
      BY <2>2 DEF Inv, Types, Inspect, Stop
    <3> QED BY <3>1, SoundIfStill DEF Inv
  <2> QED BY <2>1, <2>2
<1> QED BY <1>1, <1>2 DEF Inv

\* The content read is that of the file, as long as the identity is current.
LEMMA ReadStep ==
  ASSUME Inv, NEW p \in Runs, Read(p)
  PROVE  Inv'
<1>1. Types'
  <2> DEFINE w == wallet[p]
             v == IF env.state = "missing" THEN [w EXCEPT !.at = "failed"]
                  ELSE [w EXCEPT !.at = "prepared",
                                 !.content = [keys |-> env.keys, lines |-> env.lines]]
  <2>1. Types /\ w \in Run /\ w.at = "stated"
    BY DEF Inv, Types, Read, At
  <2>2. v \in Run
    BY <2>1 DEF Run, Places, Types
  <2>3. wallet' = [wallet EXCEPT ![p] = v]
    BY <2>1 DEF Read, Stop, Types
  <2> QED BY <2>1, <2>2, <2>3, TypesIfMoved DEF Read
<1>2. ASSUME NEW q \in Runs PROVE Sound(q)'
  <2>1. CASE q = p
    <3>1. wallet \in [Runs -> Run] /\ At(p, "stated") /\ Sound(p)
      BY DEF Inv, Types, Read
    <3> QED BY <2>1, <3>1 DEF Read, Stop, At, Sound, Run
  <2>2. CASE q # p
    <3>1. wallet'[q] = wallet[q] /\ env' = env /\ stamp' = stamp
      BY <2>2 DEF Inv, Types, Read, Stop
    <3> QED BY <3>1, SoundIfStill DEF Inv
  <2> QED BY <2>1, <2>2
<1> QED BY <1>1, <1>2 DEF Inv

\* The keys a run chooses keep every key it read.
LEMMA ChosenKeeps ==
  ASSUME Types, NEW p \in Runs
  PROVE  /\ Chosen(p) \in [Roles -> Keys]
         /\ \A r \in Roles : wallet[p].content.keys[r] # None =>
                                Chosen(p)[r] = wallet[p].content.keys[r]
         /\ {r \in Roles : wallet[p].content.keys[r] = None} = {} =>
               Chosen(p) = wallet[p].content.keys
<1>1. wallet[p].content.keys \in [Roles -> Keys]
  BY DEF Types, Run
<1>2. \A r \in Roles : <<p, r>> \in Keys
  BY DEF Keys
<1> QED BY <1>1, <1>2 DEF Chosen

\* Generated keys complete the content that was read.
LEMMA GenerateStep ==
  ASSUME Inv, NEW p \in Runs, Generate(p)
  PROVE  Inv'
<1> DEFINE w == wallet[p]
           keys == Chosen(p)
           missing == {r \in Roles : w.content.keys[r] = None}
           next == IF missing # {} \/ ~w.existed THEN "write" ELSE "done"
<1>1. /\ wallet \in [Runs -> Run] /\ At(p, "prepared") /\ Sound(p) /\ Types
      /\ env' = env /\ stamp' = stamp /\ siblings' = siblings
  BY DEF Inv, Types, Generate
<1>2. keys \in [Roles -> Keys]
  BY <1>1, ChosenKeeps
<1>3. \/ wallet' = [wallet EXCEPT ![p].at = "failed"]
      \/ /\ Acceptable(keys)
         /\ wallet' = [wallet EXCEPT ![p].at = next, ![p].keys = keys, ![p].content.keys = keys]
  BY DEF Generate, Stop
<1> HIDE DEF keys, next
<1>4. next \in {"write", "done"}
  BY DEF next
<1>5. Types'
  <2> DEFINE v == IF wallet' = [wallet EXCEPT ![p].at = "failed"]
                  THEN [w EXCEPT !.at = "failed"]
                  ELSE [w EXCEPT !.at = next, !.keys = keys, !.content.keys = keys]
  <2>1. w \in Run /\ w.at = "prepared"
    BY <1>1 DEF At
  <2>2. v \in Run
    BY <1>2, <1>4, <2>1 DEF Run, Places
  <2>3. wallet' = [wallet EXCEPT ![p] = v]
    BY <1>1, <1>3
  <2> QED BY <1>1, <2>1, <2>2, <2>3, TypesIfMoved
<1>6. ASSUME NEW q \in Runs PROVE Sound(q)'
  <2>1. CASE q = p
    <3>1. CASE wallet' = [wallet EXCEPT ![p].at = "failed"]
      BY <1>1, <2>1, <3>1 DEF Sound, At, Run
    <3>2. CASE /\ Acceptable(keys)
               /\ wallet' = [wallet EXCEPT ![p].at = next, ![p].keys = keys,
                                           ![p].content.keys = keys]
      <4> DEFINE v == wallet'[p]
      <4>1. /\ v.at = next /\ v.keys = keys /\ v.content.keys = keys
            /\ v.content.lines = w.content.lines /\ v.existed = w.existed
            /\ v.identity = w.identity /\ v.checked = w.checked
        BY <1>1, <3>2 DEF Run
      <4>2. w.checked = 0 /\ (w.existed => w.identity <= stamp)
        BY <1>1 DEF Sound, At
      <4>3. w.existed /\ w.identity = stamp => w.content.keys = env.keys /\ w.content.lines = env.lines
        BY <1>1 DEF Sound
      <4>4. \A r \in Roles : w.content.keys[r] # None => keys[r] = w.content.keys[r]
        BY <1>1, ChosenKeeps DEF keys
      <4>5. w.existed /\ w.identity = stamp =>
               /\ v.content.lines = env.lines
               /\ \A r \in Roles : env.keys[r] # None => v.content.keys[r] = env.keys[r]
        BY <4>1, <4>3, <4>4
      <4>6. next = "done" => w.existed /\ keys = w.content.keys
        BY <1>1, ChosenKeeps DEF next, keys
      <4>7. next = "done" /\ w.identity = stamp => env.keys = keys
        BY <4>3, <4>6
      <4> HIDE DEF v
      <4>8. Sound(p)'
        BY <1>1, <1>4, <3>2, <4>1, <4>2, <4>5, <4>6, <4>7 DEF v, Sound, At, Agrees, Acceptable
      <4> QED BY <4>8, <2>1
    <3> QED BY <1>3, <3>1, <3>2
  <2>2. CASE q # p
    <3>1. wallet'[q] = wallet[q]
      BY <1>1, <1>3, <2>2
    <3> QED BY <1>1, <3>1, SoundIfStill DEF Inv
  <2> QED BY <2>1, <2>2
<1> QED BY <1>5, <1>6 DEF Inv

\* A run that only goes elsewhere, to a place that promises nothing, is sound.
LEMMA SoundIfStopped ==
  ASSUME NEW p \in Runs, Inv, NEW how \in {"failed", "crashed"},
         env' = env, stamp' = stamp, Stop(p, how)
  PROVE  \A q \in Runs : Sound(q)'
<1> SUFFICES ASSUME NEW q \in Runs PROVE Sound(q)'
  OBVIOUS
<1>1. wallet \in [Runs -> Run] /\ Sound(q)
  BY DEF Inv, Types
<1>2. CASE q = p
  BY <1>1, <1>2 DEF Stop, Sound, At, Run
<1>3. CASE q # p
  <2>1. wallet'[q] = wallet[q]
    BY <1>1, <1>3 DEF Stop
  <2> QED BY <1>1, <2>1, SoundIfStill
<1> QED BY <1>2, <1>3

\* The temporary file is the run's own.
LEMMA WriteStep ==
  ASSUME Inv, NEW p \in Runs, Write(p)
  PROVE  Inv'
<1>1. /\ Types /\ wallet \in [Runs -> Run] /\ At(p, "write") /\ env' = env /\ stamp' = stamp
      /\ p \notin siblings
  BY DEF Inv, Types, Write, At
<1>2. CASE siblings' = siblings \cup {p} /\ Stop(p, "written")
  <2>1. Types'
    <3>1. wallet' \in [Runs -> Run]
      BY <1>1, <1>2 DEF Stop, Run, Places
    <3>2. \A q \in siblings : wallet'[q] = wallet[q]
      BY <1>1, <1>2 DEF Stop, Types
    <3>3. wallet'[p].at = "written"
      BY <1>1, <1>2 DEF Stop, Run
    <3> QED BY <1>1, <1>2, <3>1, <3>2, <3>3 DEF Types
  <2>2. ASSUME NEW q \in Runs PROVE Sound(q)'
    <3>1. CASE q = p
      <4>1. Sound(p)
        BY DEF Inv
      <4> QED BY <1>1, <1>2, <3>1, <4>1 DEF Stop, Sound, At, Agrees, Acceptable, Run
    <3>2. CASE q # p
      <4>1. wallet'[q] = wallet[q]
        BY <1>1, <1>2, <3>2 DEF Stop
      <4> QED BY <1>1, <4>1, SoundIfStill DEF Inv
    <3> QED BY <3>1, <3>2
  <2> QED BY <2>1, <2>2 DEF Inv
<1>3. CASE Stop(p, "failed") /\ UNCHANGED siblings
  <2>1. Types'
    BY <1>1, <1>3 DEF Types, Run, Places, Stop
  <2> QED BY <1>1, <1>3, <2>1, SoundIfStopped DEF Inv
<1> QED BY <1>2, <1>3 DEF Write

\* The last check compares the identity with the present one.
LEMMA CheckStep ==
  ASSUME Inv, NEW p \in Runs, Check(p)
  PROVE  Inv'
<1>1. /\ Types /\ wallet \in [Runs -> Run] /\ At(p, "written") /\ env' = env /\ stamp' = stamp
      /\ stamp \in Nat \ {0}
  BY DEF Inv, Types, Check
<1>2. CASE /\ Unchanged(p)
           /\ wallet' = [wallet EXCEPT ![p].at = "checked", ![p].checked = stamp]
           /\ siblings' = siblings
  <2>1. Types'
    <3>1. wallet[p] \in Run
      BY <1>1
    <3>2. [wallet[p] EXCEPT !.at = "checked", !.checked = stamp] \in Run
      BY <1>1, <3>1 DEF Run, Places
    <3>3. wallet' \in [Runs -> Run]
      BY <1>1, <1>2, <3>1, <3>2
    <3>4. \A q \in siblings' : wallet'[q].at \in {"written", "checked", "crashed"}
      BY <1>1, <1>2, <3>1 DEF Types, Run
    <3> QED BY <1>1, <1>2, <3>3, <3>4 DEF Types
  <2>2. ASSUME NEW q \in Runs PROVE Sound(q)'
    <3>1. CASE q = p
      <4>1. Sound(p)
        BY DEF Inv
      <4> QED BY <1>1, <1>2, <3>1, <4>1 DEF Unchanged, Sound, At, Agrees, Acceptable, Run
    <3>2. CASE q # p
      <4>1. wallet'[q] = wallet[q]
        BY <1>1, <1>2, <3>2
      <4> QED BY <1>1, <4>1, SoundIfStill DEF Inv
    <3> QED BY <3>1, <3>2
  <2> QED BY <2>1, <2>2 DEF Inv
<1>3. CASE Stop(p, "failed") /\ siblings' = siblings \ {p}
  <2>1. Types'
    BY <1>1, <1>3 DEF Types, Run, Places, Stop
  <2> QED BY <1>1, <1>3, <2>1, SoundIfStopped DEF Inv
<1> QED BY <1>2, <1>3 DEF Check

\* A rename puts a completion of the present content in its place.
LEMMA RenameStep ==
  ASSUME Inv, NEW p \in Runs, Rename(p)
  PROVE  Inv'
<1> DEFINE w == wallet[p]
<1>1. /\ Types /\ wallet \in [Runs -> Run] /\ At(p, "checked") /\ w \in Run /\ Sound(p)
      /\ stamp \in Nat \ {0} /\ siblings' = siblings \ {p}
  BY DEF Inv, Types, Rename
<1>2. CASE /\ env' = [state |-> "private", keys |-> w.content.keys, lines |-> w.content.lines]
           /\ stamp' = stamp + 1
           /\ Stop(p, "done")
  <2>1. Types'
    <3>1. env' \in [state : States, keys : [Roles -> Keys], lines : Nat]
      BY <1>1, <1>2 DEF Run, States
    <3>2. wallet' \in [Runs -> Run]
      BY <1>1, <1>2 DEF Stop, Run, Places
    <3>3. \A q \in siblings' : wallet'[q] = wallet[q]
      BY <1>1, <1>2 DEF Stop, Types
    <3> QED BY <1>1, <1>2, <3>1, <3>2, <3>3 DEF Types
  <2>2. ASSUME NEW q \in Runs PROVE Sound(q)'
    <3>1. CASE q = p
      <4>1. w.existed => w.identity <= stamp + 1
        BY <1>1 DEF Sound, Run
      <4>2. 0 < w.checked /\ w.checked <= stamp /\ w.checked \in Nat
        BY <1>1 DEF Sound, Run
      <4>3. w.checked # 0 /\ w.checked < stamp + 1
        BY <1>1, <4>2
      <4>4. Acceptable(w.keys) /\ w.content.keys = w.keys
        BY <1>1 DEF Sound, At
      <4>5. wallet'[p] = [w EXCEPT !.at = "done"]
        BY <1>1, <1>2 DEF Stop
      <4>6. /\ wallet'[p].at = "done" /\ wallet'[p].keys = w.keys
            /\ wallet'[p].existed = w.existed /\ wallet'[p].identity = w.identity
            /\ wallet'[p].checked = w.checked
        BY <1>1, <4>5 DEF Run
      <4> QED BY <1>2, <3>1, <4>1, <4>3, <4>4, <4>6 DEF Sound, At, Acceptable
    <3>2. CASE q # p
      <4>1. wallet'[q] = wallet[q]
        BY <1>1, <1>2, <3>2 DEF Stop
      <4> QED BY <1>1, <1>2, <4>1, SoundIfOvertaken DEF Inv
    <3> QED BY <3>1, <3>2
  <2> QED BY <2>1, <2>2 DEF Inv
<1>3. CASE Stop(p, "failed") /\ UNCHANGED <<env, stamp>>
  <2>1. Types'
    BY <1>1, <1>3 DEF Types, Run, Places, Stop
  <2> QED BY <1>1, <1>3, <2>1, SoundIfStopped DEF Inv
<1> QED BY <1>2, <1>3 DEF Rename

\* A crash leaves the file as it is.
LEMMA CrashStep ==
  ASSUME Inv, NEW p \in Runs, Crash(p)
  PROVE  Inv'
<1>1. Types /\ Stop(p, "crashed") /\ UNCHANGED <<env, stamp, siblings>>
  BY DEF Inv, Crash
<1>2. Types'
  BY <1>1 DEF Types, Run, Places, Stop
<1> QED BY <1>1, <1>2, SoundIfStopped DEF Inv

\* An edit makes every identity taken before it an old one.
LEMMA EditStep ==
  ASSUME Inv, Edit
  PROVE  Inv'
<1>1. Types /\ stamp' = stamp + 1 /\ siblings' = siblings /\ wallet' = wallet
  BY DEF Inv, Edit
<1>2. env' \in [state : States, keys : [Roles -> Keys], lines : Nat]
  <2> DEFINE Files == [state : States, keys : [Roles -> Keys], lines : Nat]
  <2>a. env \in Files
    BY <1>1 DEF Types
  <2>b. "private" \in States /\ "missing" \in States /\ None \in Keys /\ ByHand \in Keys
    BY DEF States, Keys
  <2>1. CASE env' = [env EXCEPT !.state = "private", !.lines = @ + 1]
    <3>1. env.lines + 1 \in Nat
      BY <2>a
    <3>2. env' = [env EXCEPT !.state = "private", !.lines = env.lines + 1]
      BY <2>1, <2>a
    <3> QED BY <2>a, <2>b, <3>1, <3>2
  <2>2. CASE \E r \in Roles, k \in {None, ByHand} :
                env' = [env EXCEPT !.state = "private", !.keys[r] = k]
    <3>1. PICK r \in Roles, k \in {None, ByHand} :
             env' = [env EXCEPT !.state = "private", !.keys[r] = k]
      BY <2>2
    <3> DEFINE ks == [env.keys EXCEPT ![r] = k]
    <3>2. ks \in [Roles -> Keys]
      BY <2>a, <2>b
    <3>3. env' = [state |-> "private", keys |-> ks, lines |-> env.lines]
      BY <3>1, <2>a
    <3> HIDE DEF ks
    <3> QED BY <2>a, <2>b, <3>2, <3>3
  <2>3. CASE env' = [env EXCEPT !.state = "missing", !.keys = Empty, !.lines = 0]
    <3>1. Empty \in [Roles -> Keys] /\ 0 \in Nat
      BY <2>b DEF Empty
    <3> QED BY <2>3, <2>a, <2>b, <3>1
  <2> QED BY <2>1, <2>2, <2>3 DEF Edit
<1>3. Types'
  BY <1>1, <1>2 DEF Types
<1>4. \A q \in Runs : Sound(q)'
  BY <1>1, SoundIfOvertaken DEF Inv
<1> QED BY <1>3, <1>4 DEF Inv

-----------------------------------------------------------------------------
(* The invariant, and what it gives. *)

\* The inductive invariant holds throughout.
LEMMA InvHolds == Spec => []Inv
<1>1. Init => Inv
  <2> SUFFICES ASSUME Init PROVE Inv
    OBVIOUS
  <2>1. Types
    BY DEF Init, Types, Run, Places, Idle, Empty, Keys
  <2>2. \A p \in Runs : Sound(p)
    BY DEF Init, Sound, At, Idle
  <2> QED BY <2>1, <2>2 DEF Inv
<1>2. Inv /\ [Next]_walletVars => Inv'
  <2> SUFFICES ASSUME Inv, [Next]_walletVars PROVE Inv'
    OBVIOUS
  <2>1. ASSUME NEW p \in Runs,
               Inspect(p) \/ Read(p) \/ Generate(p) \/ Write(p) \/ Check(p) \/ Rename(p) \/ Crash(p)
        PROVE  Inv'
    BY <2>1, InspectStep, ReadStep, GenerateStep, WriteStep, CheckStep, RenameStep, CrashStep
  <2>2. CASE Edit
    BY <2>2, EditStep
  <2>3. CASE UNCHANGED walletVars
    <3>1. Types'
      BY <2>3 DEF Inv, Types, walletVars
    <3>2. \A p \in Runs : Sound(p)'
      BY <2>3, SoundIfStill DEF Inv, walletVars
    <3> QED BY <3>1, <3>2 DEF Inv
  <2> QED BY <2>1, <2>2, <2>3 DEF Next
<1> QED BY <1>1, <1>2, PTL DEF Spec

\* Type correctness of the file and its runs (scripts/lib/env-persistence.ts); a
\* sibling lies there only between its writing and the rename, or after a crash.
THEOREM WalletTypes == Spec => []WalletTypeOK
<1>1. Inv => WalletTypeOK
  BY DEF Inv, Types, WalletTypeOK, Run, Places
<1> QED BY <1>1, InvHolds, PTL

\* A run prints two different valid keys, and they are in the file unless somebody
\* wrote it since (create-wallets.ts prints the addresses after updateWalletEnv).
THEOREM PrintedKeys == Spec => []PrintedKeysAreStored
<1>1. Inv => PrintedKeysAreStored
  <2> SUFFICES ASSUME Inv, NEW p \in Runs, At(p, "done")
               PROVE  /\ Junk \notin {wallet[p].keys[r] : r \in Roles}
                      /\ wallet[p].keys["A"] # wallet[p].keys["B"]
                      /\ stamp = (IF wallet[p].checked = 0 THEN wallet[p].identity
                                                           ELSE wallet[p].checked + 1)
                            => env.keys = wallet[p].keys
    BY DEF PrintedKeysAreStored
  <2>1. Sound(p)
    BY DEF Inv
  <2> QED BY <2>1 DEF Sound, At, Acceptable
<1> QED BY <1>1, InvHolds, PTL

\* The rename loses nothing that was in the file when the run last checked it
\* (env-persistence.ts, assertTargetUnchanged before renameSync).
THEOREM NothingLost == Spec => NothingOverwritten
<1>1. Inv /\ [Next]_walletVars => [KeepsWhatWasThere]_walletVars
  <2> SUFFICES ASSUME Inv, Next, NEW p \in Runs, At(p, "checked"), wallet'[p].at = "done",
                      stamp = wallet[p].checked, env.state = "private"
               PROVE  /\ \A r \in Roles : env.keys[r] # None => env'.keys[r] = env.keys[r]
                      /\ env'.lines = env.lines
    BY DEF KeepsWhatWasThere
  <2>1. wallet \in [Runs -> Run] /\ Sound(p)
    BY DEF Inv, Types
  <2>2. Agrees(p)
    BY <2>1 DEF Sound, At
  <2>3. Rename(p)
    <3>1. ASSUME NEW q \in Runs,
                 Inspect(q) \/ Read(q) \/ Generate(q) \/ Write(q) \/ Check(q) \/ Crash(q)
          PROVE  FALSE
      BY <2>1, <3>1 DEF Inspect, Read, Generate, Write, Check, Crash, Stop, At, Run
    <3>2. ASSUME NEW q \in Runs, Rename(q) PROVE q = p
      BY <2>1, <3>2 DEF Rename, Stop, At, Run
    <3>3. ASSUME Edit PROVE FALSE
      <4>1. wallet' = wallet
        BY <3>3 DEF Edit
      <4> QED BY <4>1 DEF At
    <3> QED BY <3>1, <3>2, <3>3 DEF Next
  <2>4. /\ env' = [state |-> "private", keys |-> wallet[p].content.keys,
                   lines |-> wallet[p].content.lines]
    BY <2>1, <2>3 DEF Rename, Stop, Run
  <2> QED BY <2>2, <2>4 DEF Agrees
<1> QED BY <1>1, InvHolds, PTL DEF Spec, NothingOverwritten

-----------------------------------------------------------------------------
(***************************************************************************)
(* The deployment scripts.                                                 *)
(* Contracts of a chain are told apart by the nonce they were created at,  *)
(* and every copy of the record names beside its verifier the gateway that *)
(* this one trusts, whichever is on record by now. Orderly says that every *)
(* copy of the record the two scripts of the target chain hold has the     *)
(* verifier the registry needs, so that it stays on record whichever of    *)
(* the two merges last.                                                    *)
(***************************************************************************)

RecordType == [verifier : Int, sourceGateway : Int, previousVerifiers : Seq(Int),
               deals : Int, previousDeals : Seq(Int), torn : BOOLEAN]
ScriptPlaces == {"off", "read", "guarded", "sent", "confirmed", "merging"}
ScriptType == [at : ScriptPlaces, existing : RecordType, gateway : Int, predicted : Int,
               address : Int, current : RecordType]
Registries(record) == {record.deals} \cup Deploys!ToSet(record.previousDeals)

\* What was deployed: an address is below the next nonce of its chain; every verifier
\* trusts a gateway and every registry a verifier that was deployed, and a registry
\* guarded for the address it got has another than the gateway of its verifier.
Deployed ==
    /\ nonce \in [{"source", "target"} -> 1..(MaxNonce + 1)]
    /\ trusts = [s \in Deploys!Scripts |-> trusts[s]]
    /\ \A s \in Deploys!Scripts : \A a \in DOMAIN trusts[s] : a \in Deploys!Contracts /\ a < nonce[Deploys!ChainOf(s)]
    /\ source \in DOMAIN trusts["gateway"] \cup {Deploys!None, Deploys!Torn}
    /\ \A v \in DOMAIN trusts["verifier"] : trusts["verifier"][v] \in DOMAIN trusts["gateway"]
    /\ \A d \in DOMAIN trusts["deals"] :
          /\ trusts["deals"][d] \in DOMAIN trusts["verifier"]
          /\ d \in DOMAIN guarded
          /\ guarded[d] = d => d # trusts["verifier"][trusts["deals"][d]]

\* A record, the present one or one that a script has read: it names what was
\* deployed, the gateway its verifier trusts, and the verifier its registry trusts.
Recorded(r) ==
    /\ r \in RecordType
    /\ Deploys!Verifiers(r) \subseteq DOMAIN trusts["verifier"] \cup {Deploys!None}
    /\ Registries(r) \subseteq DOMAIN trusts["deals"] \cup {Deploys!None}
    /\ r.verifier # Deploys!None =>
          r.verifier # trusts["verifier"][r.verifier] /\ r.sourceGateway = trusts["verifier"][r.verifier]
    /\ r.deals # Deploys!None => trusts["deals"][r.deals] \in Deploys!Verifiers(r)

Running(s, w) ==
    /\ w \in ScriptType
    /\ w.at # "off" =>
          /\ Recorded(w.existing)
          /\ s # "gateway" => w.gateway \in DOMAIN trusts["gateway"]
          /\ s = "deals" => /\ w.existing.verifier \in DOMAIN trusts["verifier"]
                            /\ w.gateway = trusts["verifier"][w.existing.verifier]
    /\ s = "deals" /\ w.at = "guarded" => w.predicted # w.gateway
    /\ w.at \in {"sent", "confirmed", "merging"} =>
          /\ w.address \in DOMAIN trusts[s]
          /\ s = "verifier" => trusts["verifier"][w.address] = w.gateway
          /\ s = "deals" => trusts["deals"][w.address] = w.existing.verifier
    /\ s = "verifier" /\ w.at \in {"confirmed", "merging"} => w.address # w.gateway
    /\ w.at = "merging" => Recorded(w.current)

\* What the verifier's script v and the registry's script d know of each other: no
\* verifier that d needs on record is unknown to v, or to what either will write.
Orderly(t, v, d) ==
    /\ d.at = "merging" /\ ~t.torn => Deploys!Verifiers(d.current) \subseteq Deploys!Verifiers(t) \cup {Deploys!None}
    /\ d.at = "merging" /\ v.at # "off" =>
          Deploys!Verifiers(d.current) \subseteq Deploys!Verifiers(v.existing) \cup {Deploys!None}
    /\ v.at # "off" => Deploys!Verifiers(t) \subseteq Deploys!Verifiers(v.existing) \cup {Deploys!None}
    /\ v.at = "merging" => Deploys!Verifiers(v.current) \subseteq Deploys!Verifiers(v.existing) \cup {Deploys!None}
    /\ d.at \notin {"off", "merging"} /\ ~t.torn => d.existing.verifier \in Deploys!Verifiers(t)
    /\ d.at = "merging" => d.existing.verifier \in Deploys!Verifiers(d.current)
    /\ d.at # "off" /\ v.at # "off" => d.existing.verifier \in Deploys!Verifiers(v.existing)

DeployInv ==
    /\ Deployed
    /\ Recorded(target)
    /\ script = [s \in Deploys!Scripts |-> script[s]]
    /\ \A s \in Deploys!Scripts : Running(s, script[s])
    /\ Orderly(target, script["verifier"], script["deals"])

-----------------------------------------------------------------------------
(* The data. *)

\* A sequence's elements are those it had and the one appended.
LEMMA AppendSet ==
  ASSUME NEW s \in Seq(Int), NEW e \in Int
  PROVE  Append(s, e) \in Seq(Int) /\ Deploys!ToSet(Append(s, e)) = Deploys!ToSet(s) \cup {e}
<1>1. DOMAIN Append(s, e) = 1..(Len(s) + 1) /\ Append(s, e)[Len(s) + 1] = e
  OBVIOUS
<1>2. \A i \in 1..Len(s) : Append(s, e)[i] = s[i]
  OBVIOUS
<1>3. DOMAIN s = 1..Len(s) /\ Len(s) \in Nat
  OBVIOUS
<1> QED BY <1>1, <1>2, <1>3 DEF Deploys!ToSet

\* What a script that supersedes an entry keeps of it.
LEMMA KeptSet ==
  ASSUME NEW s \in Seq(Int), NEW e \in Int, NEW kept, kept = IF e = Deploys!None THEN s ELSE Append(s, e)
  PROVE  /\ kept \in Seq(Int)
         /\ Deploys!ToSet(kept) \subseteq Deploys!ToSet(s) \cup {e}
         /\ Deploys!ToSet(s) \cup {e} \subseteq Deploys!ToSet(kept) \cup {Deploys!None}
<1>1. CASE e = Deploys!None
  BY <1>1
<1>2. CASE e # Deploys!None
  BY <1>2, AppendSet
<1> QED BY <1>1, <1>2

\* A record that names nothing satisfies what is asked of one.
LEMMA NothingRecorded ==
  ASSUME NEW x \in BOOLEAN
  PROVE  /\ Deploys!Blank(x) \in RecordType
         /\ Deploys!Verifiers(Deploys!Blank(x)) = {Deploys!None} /\ Registries(Deploys!Blank(x)) = {Deploys!None}
         /\ Deploys!Blank(x).verifier = Deploys!None /\ Deploys!Blank(x).deals = Deploys!None
         /\ Deploys!Blank(x).torn = x
<1>1. PICK e : e = <<>>
  OBVIOUS
<1>2. Deploys!ToSet(e) = {} /\ e \in Seq(Int)
  BY <1>1 DEF Deploys!ToSet
<1>3. Deploys!Blank(x) = [verifier |-> Deploys!None, sourceGateway |-> Deploys!None, previousVerifiers |-> e, deals |-> Deploys!None,
                  previousDeals |-> e, torn |-> x]
  BY <1>1 DEF Deploys!Blank
<1>4. Deploys!Blank(x) \in RecordType
  BY <1>2, <1>3 DEF RecordType, Deploys!None
<1>5. /\ Deploys!Blank(x).verifier = Deploys!None /\ Deploys!Blank(x).deals = Deploys!None
      /\ Deploys!Blank(x).previousVerifiers = e /\ Deploys!Blank(x).previousDeals = e /\ Deploys!Blank(x).torn = x
  BY <1>3
<1> QED BY <1>2, <1>4, <1>5 DEF Deploys!Verifiers, Registries

-----------------------------------------------------------------------------
(* Records and scripts while contracts are added. *)

Grown ==
    /\ \A s \in Deploys!Scripts : DOMAIN trusts[s] \subseteq DOMAIN trusts'[s]
    /\ \A s \in Deploys!Scripts : \A a \in DOMAIN trusts[s] : trusts'[s][a] = trusts[s][a]

LEMMA StillRecorded ==
  ASSUME Grown, Deployed, NEW r, Recorded(r)
  PROVE  Recorded(r)'
<1>1. /\ DOMAIN trusts["verifier"] \subseteq DOMAIN trusts'["verifier"]
      /\ DOMAIN trusts["deals"] \subseteq DOMAIN trusts'["deals"]
      /\ \A d \in DOMAIN trusts["deals"] : trusts'["deals"][d] = trusts["deals"][d]
  BY DEF Grown, Deploys!Scripts
<1>2. /\ r.deals # Deploys!None => r.deals \in DOMAIN trusts["deals"]
      /\ r.verifier # Deploys!None => r.verifier \in DOMAIN trusts["verifier"]
  BY DEF Recorded, Registries, Deploys!Verifiers
<1>3. \A v \in DOMAIN trusts["verifier"] : trusts'["verifier"][v] = trusts["verifier"][v]
  BY DEF Grown, Deploys!Scripts
<1> QED BY <1>1, <1>2, <1>3 DEF Recorded

LEMMA StillRunning ==
  ASSUME Grown, Deployed, NEW s \in Deploys!Scripts, NEW w, Running(s, w)
  PROVE  Running(s, w)'
<1>1. /\ \A q \in Deploys!Scripts : DOMAIN trusts[q] \subseteq DOMAIN trusts'[q]
      /\ \A q \in Deploys!Scripts : \A a \in DOMAIN trusts[q] : trusts'[q][a] = trusts[q][a]
      /\ {"gateway", "verifier", "deals"} \subseteq Deploys!Scripts
  BY DEF Grown, Deploys!Scripts
<1>2. /\ w.at # "off" => Recorded(w.existing)'
      /\ w.at = "merging" => Recorded(w.current)'
  BY StillRecorded DEF Running
<1> QED BY <1>1, <1>2 DEF Running, Grown

\* What the record of the source chain may hold.
Sources == DOMAIN trusts["gateway"] \cup {Deploys!None, Deploys!Torn}

LEMMA SourceStays == ASSUME DeployInv, source' = source PROVE source' \in Sources
BY DEF DeployInv, Deployed, Sources

\* A script moves, and nothing else does but the record of the source chain.
LEMMA MovedAlone ==
  ASSUME DeployInv, NEW s \in Deploys!Scripts, NEW w, script' = [script EXCEPT ![s] = w], Running(s, w),
         UNCHANGED <<nonce, trusts, target, guarded>>, source' \in Sources,
         Orderly(target, script'["verifier"], script'["deals"])
  PROVE  DeployInv'
<1>1. Grown
  BY DEF Grown
<1>2. Deployed'
  BY DEF DeployInv, Deployed, Sources
<1>3. Recorded(target)'
  BY DEF DeployInv, Recorded
<1>4. script' = [q \in Deploys!Scripts |-> script'[q]] /\ script'[s] = w
      /\ \A q \in Deploys!Scripts \ {s} : script'[q] = script[q]
  BY DEF DeployInv
<1>5. ASSUME NEW q \in Deploys!Scripts PROVE Running(q, script[q])' 
  <2>1. PICK x : x = script'[q]
    OBVIOUS
  <2>2. Running(q, x)
    BY <1>4, <2>1 DEF DeployInv
  <2>3. Running(q, x)'
    BY <1>1, <2>2, StillRunning DEF DeployInv
  <2> QED BY <2>1, <2>3
<1> QED BY <1>2, <1>3, <1>4, <1>5 DEF DeployInv

\* The type of a script that is at another place.
LEMMA OffIsIdle ==
  Deploys!Off \in ScriptType /\ Deploys!Off.at = "off"
<1>1. Deploys!NoRecord \in RecordType
  BY NothingRecorded DEF Deploys!NoRecord
<1> QED BY <1>1 DEF Deploys!Off, ScriptType, ScriptPlaces, Deploys!None

LEMMA OffRuns ==
  ASSUME NEW s \in Deploys!Scripts
  PROVE  Running(s, Deploys!Off)
BY OffIsIdle DEF Running

LEMMA OffIsOrderly ==
  ASSUME DeployInv, NEW s \in Deploys!Scripts, script' = [script EXCEPT ![s] = Deploys!Off]
  PROVE  Orderly(target, script'["verifier"], script'["deals"])
<1>1. \A q \in Deploys!Scripts \ {s} : script'[q] = script[q]
  BY DEF DeployInv
<1>2. script'[s] = Deploys!Off
  BY DEF DeployInv
<1>3. "verifier" \in Deploys!Scripts /\ "deals" \in Deploys!Scripts
  BY DEF Deploys!Scripts
<1>4. Orderly(target, script["verifier"], script["deals"])
  BY DEF DeployInv
<1>5. CASE s = "verifier"
  BY <1>1, <1>2, <1>3, <1>4, <1>5, OffIsIdle DEF Orderly
<1>6. CASE s = "deals"
  BY <1>1, <1>2, <1>3, <1>4, <1>6, OffIsIdle DEF Orderly
<1>7. CASE s = "gateway"
  BY <1>1, <1>3, <1>4, <1>7
<1> QED BY <1>5, <1>6, <1>7 DEF Deploys!Scripts

LEMMA TurnedOff ==
  ASSUME DeployInv, NEW s \in Deploys!Scripts, script' = [script EXCEPT ![s] = Deploys!Off],
         UNCHANGED <<nonce, trusts, target, guarded>>, source' \in Sources
  PROVE  DeployInv'
BY OffRuns, OffIsOrderly, MovedAlone

-----------------------------------------------------------------------------
(* One lemma per action. *)

LEMMA RecordFields ==
  ASSUME NEW v \in ScriptType, NEW at \in ScriptPlaces
  PROVE  LET w == [v EXCEPT !.at = at] IN
         /\ w \in ScriptType /\ w.at = at /\ w.existing = v.existing /\ w.gateway = v.gateway
         /\ w.predicted = v.predicted /\ w.address = v.address /\ w.current = v.current
BY DEF ScriptType

LEMMA BeginStep ==
  ASSUME DeployInv, NEW s \in Deploys!Scripts, NEW reason \in BOOLEAN, Deploys!Begin(s, reason)
  PROVE  DeployInv'
<1>1. PICK w : w = [Deploys!Off EXCEPT !.at = "read", !.existing = target,
                               !.gateway = IF s = "deals" THEN trusts["verifier"][target.verifier]
                                                          ELSE source]
  OBVIOUS
<1>2. script' = [script EXCEPT ![s] = w] /\ UNCHANGED <<nonce, trusts, source, target, guarded>>
  BY <1>1 DEF Deploys!Begin
<1>3. target \in RecordType /\ target.verifier \in DOMAIN trusts["verifier"] \cup {Deploys!None}
      /\ Recorded(target)
  BY DEF DeployInv, Recorded, Deploys!Verifiers
<1>4. source \in Int
  <2>1. \A a \in DOMAIN trusts["gateway"] : a \in Int
    BY DEF DeployInv, Deployed, Deploys!Scripts, Deploys!Contracts
  <2>2. source \in DOMAIN trusts["gateway"] \/ source = Deploys!None \/ source = Deploys!Torn
    BY DEF DeployInv, Deployed
  <2> QED BY <2>1, <2>2 DEF Deploys!None, Deploys!Torn
<1>5. s = "deals" => /\ target.verifier \in DOMAIN trusts["verifier"]
                     /\ trusts["verifier"][target.verifier] \in DOMAIN trusts["gateway"]
  BY <1>3 DEF Deploys!Begin, Deploys!Allowed, DeployInv, Deployed
<1>6. PICK g : g = IF s = "deals" THEN trusts["verifier"][target.verifier] ELSE source
  OBVIOUS
<1>g. g \in Int
  BY <1>4, <1>5, <1>6 DEF DeployInv, Deployed, Deploys!Scripts, Deploys!Contracts
<1>7. /\ w \in ScriptType /\ w.at = "read" /\ w.existing = target /\ w.gateway = g
  BY <1>1, <1>3, <1>6, <1>g, OffIsIdle DEF ScriptType, ScriptPlaces
<1>8. Running(s, w)
  <2>1. s = "verifier" => source \in DOMAIN trusts["gateway"]
    BY DEF Deploys!Begin, Deploys!Allowed, DeployInv, Deployed
  <2>2. s # "gateway" => g \in DOMAIN trusts["gateway"]
    BY <1>5, <1>6, <2>1 DEF Deploys!Scripts
  <2> QED BY <1>3, <1>5, <1>6, <1>7, <2>2 DEF Running, Deploys!Scripts
<1>9. Orderly(target, script'["verifier"], script'["deals"])
  <2>1. Orderly(target, script["verifier"], script["deals"])
    BY DEF DeployInv
  <2>2. script'[s] = w /\ \A q \in Deploys!Scripts \ {s} : script'[q] = script[q]
    BY <1>2 DEF DeployInv
  <2>3. {"gateway", "verifier", "deals"} = Deploys!Scripts
    BY DEF Deploys!Scripts
  <2>4. CASE s = "gateway"
    BY <2>1, <2>2, <2>3, <2>4
  <2>5. CASE s = "verifier"
    <3>1. ~target.torn
      BY <2>5 DEF Deploys!Begin
    <3>2. script["deals"].at # "off" => script["deals"].existing.verifier \in DOMAIN trusts["verifier"]
      BY <2>3 DEF DeployInv, Running
    <3>3. script["deals"].at # "off" => script["deals"].existing.verifier # Deploys!None
      BY <3>2 DEF DeployInv, Deployed, Deploys!Scripts, Deploys!Contracts, Deploys!None
    <3>4. script["deals"].at # "off" => script["deals"].existing.verifier \in Deploys!Verifiers(target)
      BY <2>1, <3>1, <3>3 DEF Orderly
    <3> QED BY <1>7, <2>1, <2>2, <2>3, <2>5, <3>1, <3>4 DEF Orderly
  <2>6. CASE s = "deals"
    <3>1. target.verifier \in Deploys!Verifiers(target) /\ target.verifier # Deploys!None
      BY <1>5, <2>6 DEF Deploys!Verifiers, DeployInv, Deployed, Deploys!Scripts, Deploys!Contracts, Deploys!None
    <3> QED BY <1>7, <2>1, <2>2, <2>3, <2>6, <3>1 DEF Orderly
  <2> QED BY <2>3, <2>4, <2>5, <2>6
<1> QED BY <1>2, <1>8, <1>9, SourceStays, MovedAlone

\* A script that goes on with what it knows keeps the order, unless it goes to merge.
LEMMA OrderKept ==
  ASSUME DeployInv, NEW s \in Deploys!Scripts, NEW w, script' = [script EXCEPT ![s] = w],
         w.at \notin {"off", "merging"}, script[s].at \notin {"off", "merging"},
         w.existing = script[s].existing
  PROVE  Orderly(target, script'["verifier"], script'["deals"])
<1>1. Orderly(target, script["verifier"], script["deals"])
  BY DEF DeployInv
<1>2. script'[s] = w /\ \A q \in Deploys!Scripts \ {s} : script'[q] = script[q]
  BY DEF DeployInv
<1>3. {"gateway", "verifier", "deals"} = Deploys!Scripts
  BY DEF Deploys!Scripts
<1>4. CASE s = "gateway"
  BY <1>1, <1>2, <1>3, <1>4
<1>5. CASE s = "verifier"
  BY <1>1, <1>2, <1>3, <1>5 DEF Orderly
<1>6. CASE s = "deals"
  BY <1>1, <1>2, <1>3, <1>6 DEF Orderly
<1> QED BY <1>3, <1>4, <1>5, <1>6

LEMMA GuardStep ==
  ASSUME DeployInv, NEW s \in Deploys!Scripts, Deploys!Guard(s)
  PROVE  DeployInv'
<1> DEFINE predicted == nonce[Deploys!ChainOf(s)]
<1>1. Running(s, script[s]) /\ script[s].at = "read" /\ script[s] \in ScriptType
  BY DEF DeployInv, Running, Deploys!Guard, Deploys!At
<1>2. UNCHANGED <<nonce, trusts, source, target, guarded>>
  BY DEF Deploys!Guard
<1>3. CASE Deploys!Taken(s, predicted)
  <2>1. script' = [script EXCEPT ![s] = Deploys!Off]
    BY <1>3 DEF Deploys!Guard
  <2> QED BY <1>2, <2>1, SourceStays, TurnedOff
<1>4. CASE ~Deploys!Taken(s, predicted)
  <2>1. PICK w : w = [script[s] EXCEPT !.at = "guarded", !.predicted = predicted]
    OBVIOUS
  <2>2. script' = [script EXCEPT ![s] = w]
    BY <1>4, <2>1 DEF Deploys!Guard, DeployInv
  <2>3. predicted \in Int
    BY DEF DeployInv, Deployed, Deploys!ChainOf
  <2>4. /\ w \in ScriptType /\ w.at = "guarded" /\ w.predicted = predicted
        /\ w.existing = script[s].existing /\ w.gateway = script[s].gateway
    BY <1>1, <2>1, <2>3 DEF ScriptType, ScriptPlaces
  <2>5. s = "deals" => predicted # w.gateway
    BY <1>4, <2>4 DEF Deploys!Taken
  <2>6. Running(s, w)
    BY <1>1, <2>4, <2>5 DEF Running
  <2>7. Orderly(target, script'["verifier"], script'["deals"])
    BY <1>1, <2>2, <2>4, OrderKept
  <2> QED BY <1>2, <2>2, <2>6, <2>7, SourceStays, MovedAlone
<1> QED BY <1>3, <1>4

LEMMA ConfirmStep ==
  ASSUME DeployInv, NEW s \in Deploys!Scripts, Deploys!Confirm(s)
  PROVE  DeployInv'
<1>1. Running(s, script[s]) /\ script[s].at = "sent" /\ script[s] \in ScriptType
  BY DEF DeployInv, Running, Deploys!Confirm, Deploys!At
<1>2. UNCHANGED <<nonce, trusts, source, target, guarded>>
  BY DEF Deploys!Confirm
<1>3. CASE ~Deploys!Recheck(s)
  <2>1. script' = [script EXCEPT ![s] = Deploys!Off]
    BY <1>3 DEF Deploys!Confirm
  <2> QED BY <1>2, <2>1, SourceStays, TurnedOff
<1>4. CASE Deploys!Recheck(s)
  <2>1. PICK w : w = [script[s] EXCEPT !.at = "confirmed"]
    OBVIOUS
  <2>2. script' = [script EXCEPT ![s] = w]
    BY <1>4, <2>1 DEF Deploys!Confirm, DeployInv
  <2>3. /\ w \in ScriptType /\ w.at = "confirmed" /\ w.address = script[s].address
        /\ w.existing = script[s].existing /\ w.gateway = script[s].gateway
    BY <1>1, <2>1 DEF ScriptType, ScriptPlaces
  <2>4. s = "verifier" => w.address # w.gateway
    BY <1>4, <2>3 DEF Deploys!Recheck
  <2>5. Running(s, w)
    BY <1>1, <2>3, <2>4 DEF Running
  <2>6. Orderly(target, script'["verifier"], script'["deals"])
    BY <1>1, <2>2, <2>3, OrderKept
  <2> QED BY <1>2, <2>2, <2>5, <2>6, SourceStays, MovedAlone
<1> QED BY <1>3, <1>4

LEMMA ReadAgainStep ==
  ASSUME DeployInv, NEW s \in Deploys!Scripts, Deploys!ReadAgain(s)
  PROVE  DeployInv'
<1>1. Running(s, script[s]) /\ script[s].at = "confirmed" /\ script[s] \in ScriptType
  BY DEF DeployInv, Running, Deploys!ReadAgain, Deploys!At
<1>2. UNCHANGED <<nonce, trusts, source, target, guarded>>
  BY DEF Deploys!ReadAgain
<1>3. CASE s # "gateway" /\ target.torn
  <2>1. script' = [script EXCEPT ![s] = Deploys!Off]
    BY <1>3 DEF Deploys!ReadAgain
  <2> QED BY <1>2, <2>1, SourceStays, TurnedOff
<1>4. CASE ~(s # "gateway" /\ target.torn)
  <2>1. PICK w : w = [script[s] EXCEPT !.at = "merging", !.current = target]
    OBVIOUS
  <2>2. script' = [script EXCEPT ![s] = w]
    BY <1>4, <2>1 DEF Deploys!ReadAgain, DeployInv
  <2>3. target \in RecordType /\ Recorded(target)
    BY DEF DeployInv, Recorded
  <2>4. /\ w \in ScriptType /\ w.at = "merging" /\ w.address = script[s].address
        /\ w.existing = script[s].existing /\ w.gateway = script[s].gateway /\ w.current = target
    BY <1>1, <2>1, <2>3 DEF ScriptType, ScriptPlaces
  <2>5. Running(s, w)
    BY <1>1, <2>3, <2>4 DEF Running
  <2>6. Orderly(target, script'["verifier"], script'["deals"])
    <3>1. Orderly(target, script["verifier"], script["deals"])
      BY DEF DeployInv
    <3>2. script'[s] = w /\ \A q \in Deploys!Scripts \ {s} : script'[q] = script[q]
      BY <2>2 DEF DeployInv
    <3>3. {"gateway", "verifier", "deals"} = Deploys!Scripts
      BY DEF Deploys!Scripts
    <3>4. CASE s = "gateway"
      BY <3>1, <3>2, <3>3, <3>4
    <3>5. CASE s = "verifier"
      BY <1>1, <2>4, <3>1, <3>2, <3>3, <3>5 DEF Orderly
    <3>6. CASE s = "deals"
      BY <1>1, <1>4, <2>4, <3>1, <3>2, <3>3, <3>6 DEF Orderly
    <3> QED BY <3>3, <3>4, <3>5, <3>6
  <2> QED BY <1>2, <2>2, <2>5, <2>6, SourceStays, MovedAlone
<1> QED BY <1>3, <1>4

LEMMA DeployStep ==
  ASSUME DeployInv, NEW s \in Deploys!Scripts, Deploys!Deploy(s)
  PROVE  DeployInv'
<1> DEFINE chain == Deploys!ChainOf(s)
           built == IF s = "deals" THEN script[s].existing.verifier ELSE script[s].gateway
<1>1. PICK address : address = nonce[chain]
  OBVIOUS
<1>2. /\ Running(s, script[s]) /\ script[s].at = "guarded" /\ script[s] \in ScriptType
      /\ Deployed /\ chain \in {"source", "target"}
  BY DEF DeployInv, Running, Deploys!Deploy, Deploys!At, Deploys!ChainOf
<1>3. /\ trusts' = [trusts EXCEPT ![s] = Deploys!Put(@, address, built)]
      /\ guarded' = IF s = "deals" THEN Deploys!Put(guarded, address, script[s].predicted) ELSE guarded
      /\ script' = [script EXCEPT ![s].at = "sent", ![s].address = address]
      /\ nonce' = [nonce EXCEPT ![chain] = @ + 1]
      /\ source' = source /\ target' = target
  BY <1>1 DEF Deploys!Deploy
<1>4. address \in Deploys!Contracts /\ address \in Int
  BY <1>1, <1>2, DeployConstants DEF Deploys!Deploy, Deployed, Deploys!Contracts
<1>5. /\ trusts' = [q \in Deploys!Scripts |-> trusts'[q]]
      /\ DOMAIN trusts'[s] = DOMAIN trusts[s] \cup {address}
      /\ trusts'[s][address] = built
      /\ \A a \in DOMAIN trusts[s] \ {address} : trusts'[s][a] = trusts[s][a]
      /\ \A q \in Deploys!Scripts \ {s} : trusts'[q] = trusts[q]
  <2>1. trusts = [q \in Deploys!Scripts |-> trusts[q]]
    BY <1>2 DEF Deployed
  <2>2. trusts'[s] = Deploys!Put(trusts[s], address, built)
    BY <1>3, <2>1
  <2>3. trusts' = [q \in Deploys!Scripts |-> trusts'[q]] /\ \A q \in Deploys!Scripts \ {s} : trusts'[q] = trusts[q]
    BY <1>3, <2>1
  <2> QED BY <2>2, <2>3 DEF Deploys!Put
<1>6. address \notin DOMAIN trusts[s]
  BY <1>1, <1>2 DEF Deployed
<1>7. Grown
  BY <1>3, <1>5, <1>6 DEF Grown
<1>8. /\ nonce' \in [{"source", "target"} -> 1..(MaxNonce + 1)]
      /\ nonce'[chain] = address + 1
      /\ \A c \in {"source", "target"} : nonce[c] <= nonce'[c] /\ nonce[c] \in Int /\ nonce'[c] \in Int
  BY <1>1, <1>2, <1>3, <1>4, DeployConstants DEF Deployed, Deploys!Contracts
<1>9. {"gateway", "verifier", "deals"} = Deploys!Scripts
  BY DEF Deploys!Scripts
<1>10. Deployed'
  <2>1. ASSUME NEW q \in Deploys!Scripts, NEW a \in DOMAIN trusts'[q]
        PROVE  a \in Deploys!Contracts /\ a < nonce'[Deploys!ChainOf(q)]
    <3>1. Deploys!ChainOf(q) \in {"source", "target"}
      BY DEF Deploys!ChainOf
    <3>2. CASE a \in DOMAIN trusts[q]
      <4>1. a \in Deploys!Contracts /\ a < nonce[Deploys!ChainOf(q)] /\ a \in Int
        BY <1>2, <3>2 DEF Deployed, Deploys!Contracts
      <4> QED BY <1>8, <3>1, <4>1
    <3>3. CASE a \notin DOMAIN trusts[q]
      <4>1. q = s /\ a = address
        BY <1>5, <3>3
      <4> QED BY <1>4, <1>8, <4>1
    <3> QED BY <3>2, <3>3
  <2>2. source' \in DOMAIN trusts'["gateway"] \cup {Deploys!None, Deploys!Torn}
    BY <1>2, <1>3, <1>7, <1>9 DEF Deployed, Grown
  <2>3. ASSUME NEW v \in DOMAIN trusts'["verifier"]
        PROVE  trusts'["verifier"][v] \in DOMAIN trusts'["gateway"]
    <3>1. CASE v \in DOMAIN trusts["verifier"]
      BY <1>2, <1>7, <1>9, <3>1 DEF Deployed, Grown
    <3>2. CASE v \notin DOMAIN trusts["verifier"]
      <4>1. s = "verifier" /\ v = address
        BY <1>5, <1>9, <3>2
      <4>2. trusts'["verifier"][v] = script[s].gateway
        BY <1>5, <4>1
      <4>3. script[s].gateway \in DOMAIN trusts["gateway"]
        BY <1>2, <4>1 DEF Running
      <4> QED BY <1>7, <1>9, <4>2, <4>3 DEF Grown
    <3> QED BY <3>1, <3>2
  <2>4. ASSUME NEW d \in DOMAIN trusts'["deals"]
        PROVE  /\ trusts'["deals"][d] \in DOMAIN trusts'["verifier"]
               /\ d \in DOMAIN guarded'
               /\ guarded'[d] = d => d # trusts'["verifier"][trusts'["deals"][d]]
    <3>0. \A v \in DOMAIN trusts["verifier"] :
             v \in DOMAIN trusts'["verifier"] /\ trusts'["verifier"][v] = trusts["verifier"][v]
      BY <1>7, <1>9 DEF Grown
    <3>1. CASE d \in DOMAIN trusts["deals"]
      <4>1. trusts'["deals"][d] = trusts["deals"][d] /\ trusts["deals"][d] \in DOMAIN trusts["verifier"]
        BY <1>2, <1>7, <1>9, <3>1 DEF Deployed, Grown
      <4>2. d \in DOMAIN guarded /\ (guarded[d] = d => d # trusts["verifier"][trusts["deals"][d]])
        BY <1>2, <3>1 DEF Deployed
      <4>3. s = "deals" => d # address
        BY <1>6, <3>1
      <4>4. d \in DOMAIN guarded' /\ guarded'[d] = guarded[d]
        BY <1>3, <4>2, <4>3 DEF Deploys!Put
      <4> QED BY <3>0, <4>1, <4>2, <4>4
    <3>2. CASE d \notin DOMAIN trusts["deals"]
      <4>1. s = "deals" /\ d = address
        BY <1>5, <1>9, <3>2
      <4>2. trusts'["deals"][d] = script[s].existing.verifier
        BY <1>5, <4>1
      <4>3. /\ script[s].existing.verifier \in DOMAIN trusts["verifier"]
            /\ script[s].predicted # trusts["verifier"][script[s].existing.verifier]
        BY <1>2, <4>1 DEF Running
      <4>4. d \in DOMAIN guarded' /\ guarded'[d] = script[s].predicted
        BY <1>3, <4>1 DEF Deploys!Put
      <4> QED BY <3>0, <4>2, <4>3, <4>4
    <3> QED BY <3>1, <3>2
  <2> QED BY <1>5, <1>8, <2>1, <2>2, <2>3, <2>4 DEF Deployed
<1>11. Recorded(target)'
  <2>1. PICK r : r = target
    OBVIOUS
  <2>2. Recorded(r)'
    BY <1>2, <1>7, <2>1, StillRecorded DEF DeployInv
  <2> QED BY <1>3, <2>1, <2>2
<1>12. PICK w : w = [script[s] EXCEPT !.at = "sent", !.address = address]
  OBVIOUS
<1>13. /\ w \in ScriptType /\ w.at = "sent" /\ w.address = address
       /\ w.existing = script[s].existing /\ w.gateway = script[s].gateway
  BY <1>2, <1>4, <1>12 DEF ScriptType, ScriptPlaces
<1>14. script' = [script EXCEPT ![s] = w]
  BY <1>3, <1>12 DEF DeployInv
<1>15. /\ script' = [q \in Deploys!Scripts |-> script'[q]] /\ script'[s] = w
       /\ \A q \in Deploys!Scripts \ {s} : script'[q] = script[q]
  BY <1>14 DEF DeployInv
<1>16. Running(s, w)'
  <2>1. PICK r : r = w.existing
    OBVIOUS
  <2>2. Recorded(r)'
    BY <1>2, <1>7, <1>13, <2>1, StillRecorded DEF DeployInv, Running
  <2>3. s # "gateway" => w.gateway \in DOMAIN trusts'["gateway"]
    BY <1>2, <1>7, <1>9, <1>13 DEF Running, Grown
  <2>4. s = "deals" => /\ w.existing.verifier \in DOMAIN trusts'["verifier"]
                       /\ w.gateway = trusts'["verifier"][w.existing.verifier]
    BY <1>2, <1>7, <1>9, <1>13 DEF Running, Grown
  <2>5. /\ w.address \in DOMAIN trusts'[s]
        /\ s = "verifier" => trusts'["verifier"][w.address] = w.gateway
        /\ s = "deals" => trusts'["deals"][w.address] = w.existing.verifier
    BY <1>5, <1>13
  <2> QED BY <1>13, <2>1, <2>2, <2>3, <2>4, <2>5 DEF Running
<1>17. ASSUME NEW q \in Deploys!Scripts PROVE Running(q, script[q])'
  <2>1. PICK x : x = script'[q]
    OBVIOUS
  <2>2. CASE q = s
    BY <1>15, <1>16, <2>2
  <2>3. CASE q # s
    <3>1. Running(q, x)
      BY <1>15, <2>1, <2>3 DEF DeployInv
    <3>2. Running(q, x)'
      BY <1>2, <1>7, <3>1, StillRunning
    <3> QED BY <2>1, <3>2
  <2> QED BY <2>2, <2>3
<1>18. Orderly(target', script'["verifier"], script'["deals"])
  <2>1. Orderly(target, script'["verifier"], script'["deals"])
    BY <1>2, <1>13, <1>14, OrderKept
  <2> QED BY <1>3, <2>1
<1> QED BY <1>10, <1>11, <1>15, <1>17, <1>18 DEF DeployInv

LEMMA OtherStep ==
  ASSUME DeployInv, Deploys!Other
  PROVE  DeployInv'
<1>1. PICK c \in {"source", "target"} : nonce[c] < MaxNonce /\ nonce' = [nonce EXCEPT ![c] = @ + 1]
  BY DEF Deploys!Other
<1>2. UNCHANGED <<trusts, source, target, script, guarded>>
  BY DEF Deploys!Other
<1>3. /\ nonce' \in [{"source", "target"} -> 1..(MaxNonce + 1)]
      /\ \A k \in {"source", "target"} : nonce[k] <= nonce'[k] /\ nonce[k] \in Int /\ nonce'[k] \in Int
  BY <1>1, DeployConstants DEF DeployInv, Deployed
<1>4. ASSUME NEW q \in Deploys!Scripts, NEW a \in DOMAIN trusts'[q]
      PROVE  a \in Deploys!Contracts /\ a < nonce'[Deploys!ChainOf(q)]
  <2>1. Deploys!ChainOf(q) \in {"source", "target"}
    BY DEF Deploys!ChainOf
  <2>2. a \in Deploys!Contracts /\ a < nonce[Deploys!ChainOf(q)] /\ a \in Int
    BY <1>2 DEF DeployInv, Deployed, Deploys!Contracts
  <2> QED BY <1>3, <2>1, <2>2
<1>5. Deployed'
  BY <1>2, <1>3, <1>4 DEF DeployInv, Deployed
<1>6. \A r : Recorded(r) => Recorded(r)'
  BY <1>2 DEF Recorded
<1>7. Recorded(target)'
  BY <1>2, <1>6 DEF DeployInv
<1>8. ASSUME NEW q \in Deploys!Scripts PROVE Running(q, script[q])'
  <2>1. PICK x : x = script[q]
    OBVIOUS
  <2>2. Running(q, x)'
    BY <1>2, <1>6, <2>1 DEF DeployInv, Running
  <2> QED BY <1>2, <2>1, <2>2
<1> QED BY <1>2, <1>5, <1>7, <1>8 DEF DeployInv

\* The operator deletes the gateway's entry: what rests on a verifier rests on the
\* gateway this one was built with.
LEMMA DeleteStep ==
  ASSUME DeployInv, Deploys!DeleteGateway
  PROVE  DeployInv'
<1>1. source' = Deploys!None /\ UNCHANGED <<nonce, trusts, target, script, guarded>>
  BY DEF Deploys!DeleteGateway
<1>2. Deployed'
  BY <1>1 DEF DeployInv, Deployed
<1>3. \A r : Recorded(r) => Recorded(r)'
  BY <1>1 DEF Recorded
<1>4. ASSUME NEW q \in Deploys!Scripts PROVE Running(q, script[q])'
  <2>1. PICK x : x = script[q]
    OBVIOUS
  <2>2. Running(q, x)'
    BY <1>1, <1>3, <2>1 DEF DeployInv, Running
  <2> QED BY <1>1, <2>1, <2>2
<1> QED BY <1>1, <1>2, <1>3, <1>4 DEF DeployInv

LEMMA TargetWritten ==
  ASSUME DeployInv, NEW s \in Deploys!Scripts, NEW r, Recorded(r), target' = r,
         script' = [script EXCEPT ![s] = Deploys!Off],
         UNCHANGED <<nonce, trusts, source, guarded>>,
         Orderly(r, script'["verifier"], script'["deals"])
  PROVE  DeployInv'
<1>1. Grown
  BY DEF Grown
<1>2. Deployed'
  BY DEF DeployInv, Deployed
<1>3. Recorded(target)'
  <2>1. Recorded(r)'
    BY <1>1, StillRecorded DEF DeployInv
  <2> QED BY <2>1
<1>4. script' = [q \in Deploys!Scripts |-> script'[q]] /\ script'[s] = Deploys!Off
      /\ \A q \in Deploys!Scripts \ {s} : script'[q] = script[q]
  BY DEF DeployInv
<1>5. ASSUME NEW q \in Deploys!Scripts PROVE Running(q, script[q])'
  <2>1. PICK x : x = script'[q]
    OBVIOUS
  <2>2. Running(q, x)
    BY <1>4, <2>1, OffRuns DEF DeployInv
  <2>3. Running(q, x)'
    BY <1>1, <2>2, StillRunning DEF DeployInv
  <2> QED BY <2>1, <2>3
<1> QED BY <1>2, <1>3, <1>4, <1>5 DEF DeployInv

\* What a script merges is a record of what was deployed.
LEMMA EntriesRecorded ==
  ASSUME DeployInv, NEW s \in {"verifier", "deals"}, Deploys!At(s, "merging")
  PROVE  /\ Recorded(Deploys!Entries(s))
         /\ s = "verifier" =>
               Deploys!Verifiers(script[s].existing) \subseteq Deploys!Verifiers(Deploys!Entries(s)) \cup {Deploys!None}
         /\ s = "deals" => Deploys!Verifiers(Deploys!Entries(s)) = Deploys!Verifiers(script[s].current)
<1> DEFINE w == script[s]
           old == w.existing
           now == w.current
           kept(list, current) == IF current = Deploys!None THEN list ELSE Append(list, current)
           r == Deploys!Entries(s)
<1>1. /\ s \in Deploys!Scripts /\ Running(s, w) /\ w.at = "merging" /\ w \in ScriptType
      /\ Recorded(old) /\ Recorded(now) /\ w.address \in DOMAIN trusts[s] /\ w.address \in Int
      /\ Deployed /\ old \in RecordType /\ now \in RecordType
  BY DEF DeployInv, Running, Recorded, Deploys!At, Deploys!Scripts, ScriptType
<1>2. CASE s = "verifier"
  <2> DEFINE list == kept(old.previousVerifiers, old.verifier)
  <2>1. /\ list \in Seq(Int)
        /\ Deploys!ToSet(list) \subseteq Deploys!ToSet(old.previousVerifiers) \cup {old.verifier}
        /\ Deploys!ToSet(old.previousVerifiers) \cup {old.verifier} \subseteq Deploys!ToSet(list) \cup {Deploys!None}
    <3>1. PICK seq, e : seq = old.previousVerifiers /\ e = old.verifier
      OBVIOUS
    <3>2. seq \in Seq(Int) /\ e \in Int
      BY <1>1, <3>1 DEF RecordType
    <3>3. list = IF e = Deploys!None THEN seq ELSE Append(seq, e)
      BY <3>1
    <3>4. PICK new : new = list
      OBVIOUS
    <3>5. /\ new \in Seq(Int) /\ Deploys!ToSet(new) \subseteq Deploys!ToSet(seq) \cup {e}
          /\ Deploys!ToSet(seq) \cup {e} \subseteq Deploys!ToSet(new) \cup {Deploys!None}
      <4>1. new = IF e = Deploys!None THEN seq ELSE Append(seq, e)
        BY <3>3, <3>4
      <4> HIDE DEF list
      <4> QED BY <3>2, <4>1, KeptSet
    <3> HIDE DEF list
    <3> QED BY <3>1, <3>4, <3>5
  <2>2. r = [now EXCEPT !.verifier = w.address, !.sourceGateway = w.gateway, !.previousVerifiers = list]
    BY <1>2 DEF Deploys!Entries
  <2> HIDE DEF list
  <2>3. /\ r \in RecordType /\ r.verifier = w.address /\ r.previousVerifiers = list
        /\ r.sourceGateway = w.gateway /\ r.deals = now.deals /\ r.previousDeals = now.previousDeals
    BY <1>1, <2>1, <2>2 DEF RecordType, ScriptType
  <2> HIDE DEF r
  <2>4. Deploys!Verifiers(r) = {w.address} \cup Deploys!ToSet(list) /\ Registries(r) = Registries(now)
    BY <2>3 DEF Deploys!Verifiers, Registries
  <2>5. Deploys!Verifiers(old) \subseteq Deploys!Verifiers(r) \cup {Deploys!None}
    BY <2>1, <2>4 DEF Deploys!Verifiers
  <2>6. Deploys!Verifiers(r) \subseteq DOMAIN trusts["verifier"] \cup {Deploys!None}
    <3>1. Deploys!Verifiers(old) \subseteq DOMAIN trusts["verifier"] \cup {Deploys!None}
      BY <1>1 DEF Recorded
    <3> QED BY <1>1, <1>2, <2>1, <2>4, <3>1 DEF Deploys!Verifiers
  <2>7. w.address # w.gateway /\ trusts["verifier"][w.address] = w.gateway
    BY <1>1, <1>2 DEF Running
  <2>8. Deploys!Verifiers(now) \subseteq Deploys!Verifiers(old) \cup {Deploys!None}
    BY <1>1, <1>2 DEF DeployInv, Orderly
  <2>9. now.deals # Deploys!None => trusts["deals"][now.deals] \in Deploys!Verifiers(r)
    <3> SUFFICES ASSUME now.deals # Deploys!None PROVE trusts["deals"][now.deals] \in Deploys!Verifiers(r)
      OBVIOUS
    <3>1. now.deals \in DOMAIN trusts["deals"] /\ trusts["deals"][now.deals] \in Deploys!Verifiers(now)
      BY <1>1 DEF Recorded, Registries
    <3>2. trusts["deals"][now.deals] # Deploys!None
      BY <1>1, <3>1 DEF Deployed, Deploys!Scripts, Deploys!Contracts, Deploys!None
    <3> QED BY <2>5, <2>8, <3>1, <3>2
  <2>10. Recorded(r)
    BY <1>1, <2>3, <2>4, <2>6, <2>7, <2>9 DEF Recorded
  <2> QED BY <1>2, <2>5, <2>10 DEF r
<1>3. CASE s = "deals"
  <2> DEFINE list == kept(old.previousDeals, old.deals)
  <2>1. list \in Seq(Int) /\ Deploys!ToSet(list) \subseteq Deploys!ToSet(old.previousDeals) \cup {old.deals}
    <3>1. old.previousDeals \in Seq(Int) /\ old.deals \in Int
      BY <1>1 DEF RecordType
    <3>2. PICK seq, e, new : seq = old.previousDeals /\ e = old.deals /\ new = list
      OBVIOUS
    <3>3. new = IF e = Deploys!None THEN seq ELSE Append(seq, e)
      BY <3>2
    <3>4. seq \in Seq(Int) /\ e \in Int
      BY <3>1, <3>2
    <3>5. new \in Seq(Int) /\ Deploys!ToSet(new) \subseteq Deploys!ToSet(seq) \cup {e}
      <4> HIDE DEF list
      <4> QED BY <3>3, <3>4, KeptSet
    <3> HIDE DEF list
    <3> QED BY <3>2, <3>5
  <2>2. r = [now EXCEPT !.deals = w.address, !.previousDeals = list]
    BY <1>3 DEF Deploys!Entries
  <2> HIDE DEF list
  <2>3. /\ r \in RecordType /\ r.deals = w.address /\ r.previousDeals = list
        /\ r.verifier = now.verifier /\ r.previousVerifiers = now.previousVerifiers
        /\ r.sourceGateway = now.sourceGateway
    BY <1>1, <2>1, <2>2 DEF RecordType
  <2> HIDE DEF r
  <2>4. Registries(r) = {w.address} \cup Deploys!ToSet(list) /\ Deploys!Verifiers(r) = Deploys!Verifiers(now)
    BY <2>3 DEF Deploys!Verifiers, Registries
  <2>5. Registries(r) \subseteq DOMAIN trusts["deals"] \cup {Deploys!None}
    <3>1. Registries(old) \subseteq DOMAIN trusts["deals"] \cup {Deploys!None}
      BY <1>1 DEF Recorded
    <3> QED BY <1>1, <1>3, <2>1, <2>4, <3>1 DEF Registries
  <2>6. trusts["deals"][w.address] \in Deploys!Verifiers(now)
    BY <1>1, <1>3 DEF DeployInv, Running, Orderly
  <2>7. Recorded(r)
    BY <1>1, <2>3, <2>4, <2>5, <2>6 DEF Recorded
  <2> QED BY <1>3, <2>4, <2>7 DEF r
<1> QED BY <1>2, <1>3

LEMMA RecordStep ==
  ASSUME DeployInv, NEW s \in Deploys!Scripts, Deploys!Record(s)
  PROVE  DeployInv'
<1>1. /\ Running(s, script[s]) /\ script[s].at = "merging" /\ Deploys!At(s, "merging")
      /\ script' = [script EXCEPT ![s] = Deploys!Off] /\ UNCHANGED <<nonce, trusts, guarded>>
  BY DEF DeployInv, Deploys!Record, Deploys!At
<1>2. CASE s = "gateway"
  <2>1. source' \in Sources /\ target' = target
    BY <1>1, <1>2 DEF Running, Deploys!Record, Sources
  <2> QED BY <1>1, <2>1, TurnedOff
<1>3. CASE s # "gateway"
  <2>1. s \in {"verifier", "deals"}
    BY <1>3 DEF Deploys!Scripts
  <2>2. PICK r : r = Deploys!Entries(s)
    OBVIOUS
  <2>3. target' = r /\ source' = source
    BY <1>3, <2>2 DEF Deploys!Record
  <2>4. /\ Recorded(r)
        /\ s = "verifier" => Deploys!Verifiers(script[s].existing) \subseteq Deploys!Verifiers(r) \cup {Deploys!None}
        /\ s = "deals" => Deploys!Verifiers(r) = Deploys!Verifiers(script[s].current)
    BY <1>1, <2>1, <2>2, EntriesRecorded
  <2>5. Orderly(r, script'["verifier"], script'["deals"])
    <3>1. Orderly(target, script["verifier"], script["deals"])
      BY DEF DeployInv
    <3>2. script'[s] = Deploys!Off /\ \A q \in Deploys!Scripts \ {s} : script'[q] = script[q]
      BY <1>1 DEF DeployInv
    <3>3. {"gateway", "verifier", "deals"} = Deploys!Scripts
      BY DEF Deploys!Scripts
    <3>4. CASE s = "verifier"
      <4> DEFINE d == script["deals"]
                 v == script["verifier"]
      <4>1. d.at # "off" => d.existing.verifier # Deploys!None
        BY <3>3 DEF DeployInv, Running, Deployed, Deploys!Contracts, Deploys!None
      <4>2. script'["verifier"].at = "off" /\ script'["deals"] = d /\ v.at = "merging"
        BY <1>1, <3>2, <3>3, <3>4, OffIsIdle
      <4>3. d.at = "merging" => Deploys!Verifiers(d.current) \subseteq Deploys!Verifiers(r) \cup {Deploys!None}
        BY <2>4, <3>1, <3>4, <4>2 DEF Orderly
      <4>4. d.at # "off" => d.existing.verifier \in Deploys!Verifiers(r)
        BY <2>4, <3>1, <3>4, <4>1, <4>2 DEF Orderly
      <4>5. d.at = "merging" => d.existing.verifier \in Deploys!Verifiers(d.current)
        BY <3>1 DEF Orderly
      <4> QED BY <4>2, <4>3, <4>4, <4>5 DEF Orderly
    <3>5. CASE s = "deals"
      BY <1>1, <2>4, <3>1, <3>2, <3>3, <3>5, OffIsIdle DEF Orderly
    <3> QED BY <2>1, <3>4, <3>5
  <2> QED BY <1>1, <2>3, <2>4, <2>5, TargetWritten
<1> QED BY <1>2, <1>3

LEMMA ScriptCrashStep ==
  ASSUME DeployInv, NEW s \in Deploys!Scripts, Deploys!Crash(s)
  PROVE  DeployInv'
<1>1. script' = [script EXCEPT ![s] = Deploys!Off] /\ UNCHANGED <<nonce, trusts, guarded>>
  BY DEF Deploys!Crash
<1>2. CASE UNCHANGED <<source, target>>
  BY <1>1, <1>2, SourceStays, TurnedOff
<1>3. CASE s = "gateway" /\ source' = Deploys!Torn /\ target' = target /\ Deploys!At(s, "merging")
  <2>1. source' \in Sources
    BY <1>3 DEF Sources
  <2> QED BY <1>1, <1>3, <2>1, TurnedOff
<1>4. CASE s # "gateway" /\ target' = Deploys!Blank(TRUE) /\ source' = source
  <2>1. PICK r : r = Deploys!Blank(TRUE)
    OBVIOUS
  <2>2. /\ r \in RecordType /\ Deploys!Verifiers(r) = {Deploys!None} /\ Registries(r) = {Deploys!None}
        /\ r.verifier = Deploys!None /\ r.deals = Deploys!None /\ r.torn
    BY <2>1, NothingRecorded
  <2>3. Recorded(r)
    BY <2>2 DEF Recorded
  <2>4. Orderly(r, script'["verifier"], script'["deals"])
    <3>1. Orderly(target, script'["verifier"], script'["deals"])
      BY <1>1, OffIsOrderly
    <3> QED BY <2>2, <3>1 DEF Orderly
  <2> QED BY <1>1, <1>4, <2>1, <2>3, <2>4, TargetWritten
<1> QED BY <1>2, <1>3, <1>4 DEF Deploys!Crash

-----------------------------------------------------------------------------

LEMMA DeployInit == Deploys!Init => DeployInv
<1> SUFFICES ASSUME Deploys!Init PROVE DeployInv
  OBVIOUS
<1>1. /\ Deploys!NoRecord \in RecordType /\ Deploys!Verifiers(Deploys!NoRecord) = {Deploys!None} /\ Registries(Deploys!NoRecord) = {Deploys!None}
      /\ Deploys!NoRecord.verifier = Deploys!None /\ Deploys!NoRecord.deals = Deploys!None
  BY NothingRecorded DEF Deploys!NoRecord
<1>2. /\ target = Deploys!NoRecord /\ source = Deploys!None /\ script = [q \in Deploys!Scripts |-> Deploys!Off]
      /\ nonce \in [{"source", "target"} -> 1..2]
  BY DEF Deploys!Init
<1>3. \A q \in Deploys!Scripts : DOMAIN trusts[q] = {}
  BY DEF Deploys!Init
<1>4. trusts = [q \in Deploys!Scripts |-> trusts[q]]
  BY DEF Deploys!Init
<1>5. nonce \in [{"source", "target"} -> 1..(MaxNonce + 1)]
  BY <1>2, DeployConstants
<1>6. Deployed
  BY <1>2, <1>3, <1>4, <1>5 DEF Deployed, Deploys!Scripts
<1>7. Recorded(target)
  BY <1>1, <1>2 DEF Recorded
<1>8. \A q \in Deploys!Scripts : Running(q, script[q])
  BY <1>2, OffRuns
<1>9. script["verifier"] = Deploys!Off /\ script["deals"] = Deploys!Off /\ script = [q \in Deploys!Scripts |-> script[q]]
  BY <1>2 DEF Deploys!Scripts
<1>10. Orderly(target, script["verifier"], script["deals"])
  BY <1>9, OffIsIdle DEF Orderly
<1> QED BY <1>6, <1>7, <1>8, <1>9, <1>10 DEF DeployInv

LEMMA DeployNext == DeployInv /\ [Deploys!Next]_deployVars => DeployInv'
<1> SUFFICES ASSUME DeployInv, [Deploys!Next]_deployVars PROVE DeployInv'
  OBVIOUS
<1>1. ASSUME NEW s \in Deploys!Scripts, NEW reason \in BOOLEAN, Deploys!Begin(s, reason) PROVE DeployInv'
  BY <1>1, BeginStep
<1>2. ASSUME NEW s \in Deploys!Scripts,
             Deploys!Guard(s) \/ Deploys!Deploy(s) \/ Deploys!Confirm(s) \/ Deploys!ReadAgain(s) \/ Deploys!Record(s) \/ Deploys!Crash(s)
      PROVE  DeployInv'
  BY <1>2, GuardStep, DeployStep, ConfirmStep, ReadAgainStep, RecordStep, ScriptCrashStep
<1>3. CASE Deploys!Other
  BY <1>3, OtherStep
<1>d. CASE Deploys!DeleteGateway
  BY <1>d, DeleteStep
<1>4. CASE UNCHANGED deployVars
  <2>1. \A r : Recorded(r) => Recorded(r)'
    BY <1>4 DEF Recorded, deployVars
  <2>2. Deployed'
    BY <1>4 DEF deployVars, DeployInv, Deployed
  <2>3. ASSUME NEW q \in Deploys!Scripts PROVE Running(q, script[q])'
    <3>1. PICK x : x = script[q]
      OBVIOUS
    <3>2. Running(q, x)'
      BY <1>4, <2>1, <3>1 DEF DeployInv, Running, deployVars
    <3> QED BY <1>4, <3>1, <3>2 DEF deployVars
  <2> QED BY <1>4, <2>1, <2>2, <2>3 DEF DeployInv, deployVars
<1> QED BY <1>1, <1>2, <1>3, <1>d, <1>4 DEF Deploys!Next

LEMMA DeployInvImplies == DeployInv => Deploys!RecordsAreSound
<1> SUFFICES ASSUME DeployInv PROVE Deploys!RecordsAreSound
  OBVIOUS
<1>1. Deployed /\ Recorded(target) /\ {"gateway", "verifier", "deals"} = Deploys!Scripts
  BY DEF DeployInv, Deploys!Scripts
<1>2. Deploys!DeployTypeOK
  <2>1. \A q \in Deploys!Scripts : script[q].at \in {"off", "read", "guarded", "sent", "confirmed", "merging"}
    BY DEF DeployInv, Running, ScriptType, ScriptPlaces
  <2> QED BY <1>1, <2>1 DEF Deploys!DeployTypeOK, Deployed, Recorded, Deploys!Verifiers, Registries
<1>3. target.verifier # Deploys!None =>
         /\ target.verifier \in DOMAIN trusts["verifier"]
         /\ target.verifier # trusts["verifier"][target.verifier]
         /\ target.sourceGateway = trusts["verifier"][target.verifier]
  BY <1>1 DEF Recorded, Deploys!Verifiers
<1>4. target.deals # Deploys!None =>
         /\ target.deals \in DOMAIN trusts["deals"]
         /\ trusts["deals"][target.deals] \in Deploys!Verifiers(target)
         /\ trusts["deals"][target.deals] \in DOMAIN trusts["verifier"]
  BY <1>1 DEF Recorded, Registries, Deployed
<1>5. Deploys!NamesApart
  BY <1>1, <1>3, <1>4 DEF Deploys!NamesApart, Deployed
<1>6. Deploys!RegistryIsTraceable
  BY <1>3, <1>4 DEF Deploys!RegistryIsTraceable
<1> QED BY <1>2, <1>5, <1>6 DEF Deploys!RecordsAreSound

-----------------------------------------------------------------------------
(***************************************************************************)
(* The page's refresh.                                                     *)
(* At most one read is in flight, and every answer it got is of a block    *)
(* since it was begun. What is shown is the read that ended last, and if   *)
(* one block at most fell into it, answers of two neighbouring blocks that *)
(* match the accepted state leave one of the two in that state.            *)
(***************************************************************************)

HeadType == [paid : BOOLEAN, score : Int, reserved : Int, exposure : Int]
ViewKinds == {"idle", "loading", "fresh", "stale", "unavailable"}
Got == UNION {[D -> Int] : D \in SUBSET Refresh!Fields}
ReadType == [at : {"reading", "done", "failed"}, got : Got, from : Int, to : Int]

\* What block b answers.
AnswerOf(f, b) ==
    CASE f = "block" -> b
      [] f \in {"deal", "evidence"} -> IF heads[b].paid THEN 1 ELSE 0
      [] f = "score" -> heads[b].score
      [] f = "limit" -> Refresh!LimitAt(heads[b].score)
      [] f = "available" -> Refresh!LimitAt(heads[b].score) - Refresh!Used(heads[b])
      [] f = "reserved" -> heads[b].reserved
      [] f = "exposure" -> heads[b].exposure

\* The chain: nothing is owed or reserved below zero, and each block follows from
\* the one before it.
Chain ==
    /\ heads \in Seq(HeadType) /\ Len(heads) >= 1
    /\ \A b \in 1..Len(heads) : heads[b].reserved >= 0 /\ Refresh!Others(heads[b]) >= 0
    /\ \A b \in 1..(Len(heads) - 1) : heads[b + 1] \in Refresh!Successors(heads[b])

Honest(r) ==
    /\ r.from \in 1..Len(heads)
    /\ r.at = "reading" =>
          \A f \in DOMAIN r.got : \E b \in r.from..Len(heads) : r.got[f] = AnswerOf(f, b)
    /\ r.at = "done" =>
          /\ r.to \in r.from..Len(heads) /\ DOMAIN r.got = Refresh!Fields
          /\ \A f \in Refresh!Fields : \E b \in r.from..r.to : r.got[f] = AnswerOf(f, b)

Done == {k \in DOMAIN refreshes : refreshes[k].at = "done"}

\* What is shown is the read that succeeded last.
Shown ==
    /\ view = [kind |-> view.kind, last |-> view.last]
    /\ view.kind \in ViewKinds
    /\ IF Done = {} THEN view.last = <<>>
       ELSE /\ view.last # <<>>
            /\ view.last[1].read \in Done /\ \A j \in Done : j <= view.last[1].read
            /\ view.last[1].value = refreshes[view.last[1].read].got
            /\ view.last[1].differences = Refresh!Differences(view.last[1].value)
    /\ view.kind \in {"fresh", "stale"} => view.last # <<>>
    /\ view.kind \in {"idle", "unavailable"} => view.last = <<>>

\* A read in flight is the one begun last, and the button is disabled meanwhile.
OneInFlight ==
    /\ \A k \in DOMAIN refreshes : Refresh!InFlight(k) => k = Len(refreshes) /\ Refresh!Disabled
    /\ Refresh!Disabled => \E k \in DOMAIN refreshes : Refresh!InFlight(k)

RefreshInv ==
    /\ Chain
    /\ refreshes \in Seq(ReadType)
    /\ \A k \in 1..Len(refreshes) : Honest(refreshes[k])
    /\ Shown
    /\ OneInFlight

\* How the numbers of a block differ from those of the one before it.
HeadGoesOn(h, g, score, reserved, exposure) ==
    /\ g \in HeadType /\ g.score = h.score + score
    /\ g.reserved = h.reserved + reserved /\ g.exposure = h.exposure + exposure

LEMMA HeadFollows ==
  ASSUME NEW h \in HeadType, NEW g \in Refresh!Successors(h)
  PROVE  \/ (g.paid <=> h.paid) /\ HeadGoesOn(h, g, 0, 1, 0)
         \/ h.reserved > 0 /\ (g.paid <=> h.paid) /\ HeadGoesOn(h, g, 0, -1, 0)
         \/ h.reserved > 0 /\ (g.paid <=> h.paid) /\ HeadGoesOn(h, g, 0, -1, 1)
         \/ ~h.paid /\ g.paid /\ HeadGoesOn(h, g, 1, 0, -1)
         \/ Refresh!Others(h) > 0 /\ (g.paid <=> h.paid) /\ HeadGoesOn(h, g, 1, 0, -1)
         \/ Refresh!Others(h) > 0 /\ (g.paid <=> h.paid) /\ HeadGoesOn(h, g, 0, 0, -1)
         \/ Refresh!Others(h) > 0 /\ (g.paid <=> h.paid) /\ HeadGoesOn(h, g, -1, 0, 0)
<1>1. \/ g = [h EXCEPT !.reserved = h.reserved + 1]
      \/ h.reserved > 0 /\ g = [h EXCEPT !.reserved = h.reserved - 1]
      \/ h.reserved > 0 /\ g = [h EXCEPT !.reserved = h.reserved - 1, !.exposure = h.exposure + 1]
      \/ ~h.paid /\ g = [h EXCEPT !.paid = TRUE, !.exposure = h.exposure - 1, !.score = h.score + 1]
      \/ Refresh!Others(h) > 0 /\ g = [h EXCEPT !.exposure = h.exposure - 1, !.score = h.score + 1]
      \/ Refresh!Others(h) > 0 /\ g = [h EXCEPT !.exposure = h.exposure - 1]
      \/ Refresh!Others(h) > 0 /\ g = [h EXCEPT !.score = h.score - 1]
  BY DEF Refresh!Successors
<1>2. ASSUME g = [h EXCEPT !.reserved = h.reserved + 1]
      PROVE  (g.paid <=> h.paid) /\ HeadGoesOn(h, g, 0, 1, 0)
  BY <1>2 DEF HeadType, HeadGoesOn
<1>3. ASSUME g = [h EXCEPT !.reserved = h.reserved - 1]
      PROVE  (g.paid <=> h.paid) /\ HeadGoesOn(h, g, 0, -1, 0)
  BY <1>3 DEF HeadType, HeadGoesOn
<1>4. ASSUME g = [h EXCEPT !.reserved = h.reserved - 1, !.exposure = h.exposure + 1]
      PROVE  (g.paid <=> h.paid) /\ HeadGoesOn(h, g, 0, -1, 1)
  <2>1. h = [paid |-> h.paid, score |-> h.score, reserved |-> h.reserved, exposure |-> h.exposure]
        /\ h.paid \in BOOLEAN /\ h.score \in Int /\ h.reserved \in Int /\ h.exposure \in Int
    BY DEF HeadType
  <2>2. g = [paid |-> h.paid, score |-> h.score, reserved |-> h.reserved - 1, exposure |-> h.exposure + 1]
    BY <1>4, <2>1
  <2> QED BY <2>1, <2>2 DEF HeadType, HeadGoesOn
<1>5. ASSUME g = [h EXCEPT !.paid = TRUE, !.exposure = h.exposure - 1, !.score = h.score + 1]
      PROVE  g.paid /\ HeadGoesOn(h, g, 1, 0, -1)
  <2>1. h = [paid |-> h.paid, score |-> h.score, reserved |-> h.reserved, exposure |-> h.exposure]
        /\ h.paid \in BOOLEAN /\ h.score \in Int /\ h.reserved \in Int /\ h.exposure \in Int
    BY DEF HeadType
  <2>2. g = [paid |-> TRUE, score |-> h.score + 1, reserved |-> h.reserved, exposure |-> h.exposure - 1]
    BY <1>5, <2>1
  <2> QED BY <2>1, <2>2 DEF HeadType, HeadGoesOn
<1>6. ASSUME g = [h EXCEPT !.exposure = h.exposure - 1, !.score = h.score + 1]
      PROVE  (g.paid <=> h.paid) /\ HeadGoesOn(h, g, 1, 0, -1)
  <2>1. h = [paid |-> h.paid, score |-> h.score, reserved |-> h.reserved, exposure |-> h.exposure]
        /\ h.paid \in BOOLEAN /\ h.score \in Int /\ h.reserved \in Int /\ h.exposure \in Int
    BY DEF HeadType
  <2>2. g = [paid |-> h.paid, score |-> h.score + 1, reserved |-> h.reserved, exposure |-> h.exposure - 1]
    BY <1>6, <2>1
  <2> QED BY <2>1, <2>2 DEF HeadType, HeadGoesOn
<1>7. ASSUME g = [h EXCEPT !.exposure = h.exposure - 1]
      PROVE  (g.paid <=> h.paid) /\ HeadGoesOn(h, g, 0, 0, -1)
  BY <1>7 DEF HeadType, HeadGoesOn
<1>8. ASSUME g = [h EXCEPT !.score = h.score - 1]
      PROVE  (g.paid <=> h.paid) /\ HeadGoesOn(h, g, -1, 0, 0)
  BY <1>8 DEF HeadType, HeadGoesOn
<1> QED BY <1>1, <1>2, <1>3, <1>4, <1>5, <1>6, <1>7, <1>8

LEMMA HeadStaysSound ==
  ASSUME NEW h \in HeadType, h.reserved >= 0, Refresh!Others(h) >= 0, NEW g \in Refresh!Successors(h)
  PROVE  /\ g \in HeadType /\ g.reserved >= 0 /\ Refresh!Others(g) >= 0
         /\ h.paid => g.paid
<1>1. /\ h.score \in Int /\ h.reserved \in Int /\ h.exposure \in Int /\ h.paid \in BOOLEAN
  BY DEF HeadType
<1> QED BY <1>1, HeadFollows DEF HeadGoesOn, Refresh!Others

\* The numbers of two neighbouring blocks, when each value read is of one of them.
LEMMA NumbersAgree ==
  ASSUME NEW s \in Int, NEW r \in Int, NEW e \in Int, NEW t \in Int, NEW q \in Int, NEW x \in Int,
         r >= 0, e >= 0, q >= 0, x >= 0,
         s = 1 \/ t = 1, (s + 2) - (r + e) = 3 \/ (t + 2) - (q + x) = 3, r = 0 \/ q = 0, e = 0 \/ x = 0,
         \/ t = s /\ q = r + 1 /\ x = e
         \/ t = s /\ q = r - 1 /\ x = e
         \/ t = s /\ q = r - 1 /\ x = e + 1
         \/ t = s + 1 /\ q = r /\ x = e - 1
         \/ t = s /\ q = r /\ x = e - 1
         \/ t = s - 1 /\ q = r /\ x = e
  PROVE  (s = 1 /\ r + e = 0) \/ (t = 1 /\ q + x = 0)
<1>1. CASE t = s /\ q = r + 1 /\ x = e
  BY <1>1
<1>2. CASE t = s /\ q = r - 1 /\ x = e
  BY <1>2
<1>3. CASE t = s /\ q = r - 1 /\ x = e + 1
  BY <1>3
<1>4. CASE t = s + 1 /\ q = r /\ x = e - 1
  BY <1>4
<1>5. CASE t = s /\ q = r /\ x = e - 1
  BY <1>5
<1>6. CASE t = s - 1 /\ q = r /\ x = e
  BY <1>6
<1> QED BY <1>1, <1>2, <1>3, <1>4, <1>5, <1>6

\* The argument of MATCH: whatever of two neighbouring blocks each value is of, one
\* of them is in the accepted state.
LEMMA OneOfTwoMatches ==
  ASSUME NEW h \in HeadType, NEW g \in Refresh!Successors(h) \cup {h}
  PROVE  /\ h.reserved >= 0 /\ Refresh!Others(h) >= 0
         /\ h.paid \/ g.paid
         /\ h.score = 1 \/ g.score = 1
         /\ (h.score + 2) - Refresh!Used(h) = 3 \/ (g.score + 2) - Refresh!Used(g) = 3
         /\ h.reserved = 0 \/ g.reserved = 0
         /\ h.exposure = 0 \/ g.exposure = 0
         => Refresh!Matches(h) \/ Refresh!Matches(g)
<1>h. SUFFICES ASSUME h.reserved >= 0, Refresh!Others(h) >= 0, h.paid \/ g.paid, h.score = 1 \/ g.score = 1,
                      (h.score + 2) - Refresh!Used(h) = 3 \/ (g.score + 2) - Refresh!Used(g) = 3,
                      h.reserved = 0 \/ g.reserved = 0, h.exposure = 0 \/ g.exposure = 0
               PROVE  Refresh!Matches(h) \/ Refresh!Matches(g)
  OBVIOUS
<1>1. /\ h.score \in Int /\ h.reserved \in Int /\ h.exposure \in Int /\ h.paid \in BOOLEAN
  BY DEF HeadType
<1>2. CASE g = h
  BY <1>h, <1>1, <1>2 DEF Refresh!Matches, Refresh!Used, Refresh!AcceptedScore
<1>3. CASE g \in Refresh!Successors(h)
  <2>1. /\ g.score \in Int /\ g.reserved \in Int /\ g.exposure \in Int
        /\ g.reserved >= 0 /\ g.exposure >= (IF g.paid THEN 0 ELSE 1)
    BY <1>h, <1>3, HeadStaysSound DEF HeadType, Refresh!Others
  <2>2. h.exposure >= (IF h.paid THEN 0 ELSE 1)
    BY <1>h, <1>1 DEF Refresh!Others
  <2>p. PICK s, r, e, t, q, x : /\ s = h.score /\ r = h.reserved /\ e = h.exposure
                              /\ t = g.score /\ q = g.reserved /\ x = g.exposure
    OBVIOUS
  <2>a. /\ s \in Int /\ r \in Int /\ e \in Int /\ t \in Int /\ q \in Int /\ x \in Int
        /\ r >= 0 /\ e >= 0 /\ q >= 0 /\ x >= 0
        /\ s = 1 \/ t = 1
        /\ (s + 2) - (r + e) = 3 \/ (t + 2) - (q + x) = 3
        /\ r = 0 \/ q = 0
        /\ e = 0 \/ x = 0
    BY <1>h, <2>p, <1>1, <2>1, <2>2 DEF Refresh!Used
  <2>3. CASE h.paid /\ g.paid
    <3>1. \/ t = s /\ q = r + 1 /\ x = e
          \/ t = s /\ q = r - 1 /\ x = e
          \/ t = s /\ q = r - 1 /\ x = e + 1
          \/ t = s + 1 /\ q = r /\ x = e - 1
          \/ t = s /\ q = r /\ x = e - 1
          \/ t = s - 1 /\ q = r /\ x = e
      BY <2>p, <1>1, <1>3, <2>3, HeadFollows DEF HeadGoesOn
    <3>2. (s = 1 /\ r + e = 0) \/ (t = 1 /\ q + x = 0)
      BY <2>a, <3>1, NumbersAgree
    <3> QED BY <2>p, <2>3, <3>2 DEF Refresh!Matches, Refresh!Used, Refresh!AcceptedScore
  <2>4. CASE ~h.paid /\ g.paid
    <3>1. t = s + 1 /\ q = r /\ x = e - 1
      BY <2>p, <1>1, <1>3, <2>4, HeadFollows DEF HeadGoesOn
    <3>2. e >= 1
      BY <2>p, <2>2, <2>4
    <3>3. (s = 1 /\ r + e = 0) \/ (t = 1 /\ q + x = 0)
      BY <2>a, <3>1, NumbersAgree
    <3>4. r + e # 0
      BY <2>a, <3>2
    <3> QED BY <2>p, <2>4, <3>3, <3>4 DEF Refresh!Matches, Refresh!Used, Refresh!AcceptedScore
  <2>5. h.paid => g.paid
    BY <1>h, <1>3, HeadStaysSound
  <2> QED BY <1>h, <2>3, <2>4, <2>5
<1> QED BY <1>2, <1>3

-----------------------------------------------------------------------------
(* The reads, and the steps. *)

LEMMA NothingGot ==
  ASSUME NEW e, e = <<>>
  PROVE  e \in Got /\ DOMAIN e = {}
<1>1. e \in [{} -> Int] /\ DOMAIN e = {}
  OBVIOUS
<1>2. {} \in SUBSET Refresh!Fields
  OBVIOUS
<1> QED BY <1>1, <1>2 DEF Got

LEMMA AnswerIsInt ==
  ASSUME Chain, NEW f \in Refresh!Fields
  PROVE  Refresh!Answer(f) \in Int /\ Refresh!Answer(f) = AnswerOf(f, Len(heads))
<1>1. Refresh!Tip \in HeadType /\ Len(heads) \in Int /\ Refresh!Tip = heads[Len(heads)]
  BY DEF Chain, Refresh!Tip
<1>2. Refresh!Tip.score \in Int /\ Refresh!Tip.reserved \in Int /\ Refresh!Tip.exposure \in Int
  BY <1>1 DEF HeadType
<1>3. Refresh!Answer(f) = AnswerOf(f, Len(heads))
  BY DEF Refresh!Answer, AnswerOf, Refresh!Tip
<1>4. Refresh!Answer(f) \in Int
  BY <1>1, <1>2 DEF Refresh!Answer, Refresh!Fields, Refresh!First, Refresh!Second, Refresh!LimitAt, Refresh!Used
<1> QED BY <1>3, <1>4

LEMMA HonestIfStill ==
  ASSUME NEW r, Honest(r), UNCHANGED heads
  PROVE  Honest(r)'
<1>1. \A f, b : AnswerOf(f, b)' = AnswerOf(f, b)
  BY DEF AnswerOf
<1> QED BY <1>1 DEF Honest

LEMMA BlockStep ==
  ASSUME RefreshInv, Refresh!Block
  PROVE  RefreshInv'
<1>1. PICK h \in Refresh!Successors(Refresh!Tip) : heads' = Append(heads, h)
  BY DEF Refresh!Block
<1>2. UNCHANGED <<view, refreshes>>
  BY DEF Refresh!Block
<1>3. /\ heads \in Seq(HeadType) /\ Len(heads) \in Nat /\ Len(heads) >= 1
      /\ Refresh!Tip \in HeadType /\ Refresh!Tip.reserved >= 0 /\ Refresh!Others(Refresh!Tip) >= 0
  BY DEF RefreshInv, Chain, Refresh!Tip
<1>4. h \in HeadType /\ h.reserved >= 0 /\ Refresh!Others(h) >= 0
  BY <1>3, HeadStaysSound
<1>5. /\ heads' \in Seq(HeadType) /\ Len(heads') = Len(heads) + 1
      /\ heads'[Len(heads) + 1] = h
      /\ \A b \in 1..Len(heads) : heads'[b] = heads[b]
  BY <1>1, <1>3, <1>4
<1>6. Chain'
  <2>1. ASSUME NEW b \in 1..Len(heads') PROVE heads'[b].reserved >= 0 /\ Refresh!Others(heads'[b]) >= 0
    <3>1. CASE b \in 1..Len(heads)
      BY <1>5, <3>1 DEF RefreshInv, Chain
    <3>2. CASE b = Len(heads) + 1
      BY <1>4, <1>5, <3>2
    <3> QED BY <1>3, <1>5, <3>1, <3>2
  <2>2. ASSUME NEW b \in 1..(Len(heads') - 1) PROVE heads'[b + 1] \in Refresh!Successors(heads'[b])
    <3>1. CASE b \in 1..(Len(heads) - 1)
      <4>1. heads'[b] = heads[b] /\ heads'[b + 1] = heads[b + 1]
        BY <1>3, <1>5, <3>1
      <4> QED BY <3>1, <4>1 DEF RefreshInv, Chain
    <3>2. CASE b = Len(heads)
      BY <1>3, <1>5, <3>2 DEF Refresh!Tip
    <3> QED BY <1>3, <1>5, <3>1, <3>2
  <2> QED BY <1>3, <1>5, <2>1, <2>2 DEF Chain
<1>7. ASSUME NEW k \in 1..Len(refreshes) PROVE Honest(refreshes[k])'
  <2> DEFINE r == refreshes[k]
  <2>a. Honest(r) /\ r \in ReadType
    BY DEF RefreshInv
  <2>1. Honest(r) /\ r.from \in Int /\ r.to \in Int
    BY <2>a DEF ReadType
  <2>2. \A f, b : b \in 1..Len(heads) => AnswerOf(f, b)' = AnswerOf(f, b)
    BY <1>5 DEF AnswerOf
  <2>3. r.from \in 1..Len(heads) /\ r.from \in 1..Len(heads')
    BY <1>3, <1>5, <2>1 DEF Honest
  <2>4. r.at = "reading" => \A f \in DOMAIN r.got :
           \E b \in r.from..Len(heads') : r.got[f] = AnswerOf(f, b)'
    BY <1>3, <1>5, <2>1, <2>2, <2>3 DEF Honest
  <2>5. r.at = "done" => /\ r.to \in r.from..Len(heads')
                         /\ \A f \in Refresh!Fields : \E b \in r.from..r.to : r.got[f] = AnswerOf(f, b)'
    BY <1>3, <1>5, <2>1, <2>2, <2>3 DEF Honest
  <2>6. refreshes' = refreshes
    BY <1>2
  <2> QED BY <2>1, <2>3, <2>4, <2>5, <2>6 DEF Honest
<1>8. Shown' /\ OneInFlight'
  BY <1>2 DEF RefreshInv, Shown, Done, OneInFlight, Refresh!InFlight, Refresh!Disabled
<1> QED BY <1>2, <1>6, <1>7, <1>8 DEF RefreshInv

LEMMA ReadIsSound ==
  ASSUME RefreshInv, NEW k \in DOMAIN refreshes
  PROVE  /\ refreshes[k] \in ReadType /\ Honest(refreshes[k]) /\ refreshes[k].got \in Got
         /\ refreshes[k].from \in Int /\ refreshes[k].to \in Int
         /\ refreshes \in Seq(ReadType) /\ Chain
<1>1. refreshes[k] \in ReadType /\ Honest(refreshes[k]) /\ refreshes \in Seq(ReadType) /\ Chain
  BY DEF RefreshInv
<1> QED BY <1>1 DEF ReadType

\* A read changes and the others do not; what is shown is settled apart.
LEMMA ReadChanged ==
  ASSUME RefreshInv, NEW k \in DOMAIN refreshes, NEW r \in ReadType, Honest(r),
         refreshes' = [refreshes EXCEPT ![k] = r], UNCHANGED heads, Shown', OneInFlight'
  PROVE  RefreshInv'
<1>1. refreshes' \in Seq(ReadType) /\ Len(refreshes') = Len(refreshes)
      /\ refreshes'[k] = r /\ \A j \in DOMAIN refreshes \ {k} : refreshes'[j] = refreshes[j]
  BY DEF RefreshInv
<1>2. Chain'
  BY DEF RefreshInv, Chain
<1>3. ASSUME NEW j \in 1..Len(refreshes') PROVE Honest(refreshes[j])'
  <2>1. PICK x : x = refreshes'[j]
    OBVIOUS
  <2>2. Honest(x)
    BY <1>1, <2>1 DEF RefreshInv
  <2>3. Honest(x)'
    BY <2>2, HonestIfStill
  <2> QED BY <2>1, <2>3
<1> QED BY <1>1, <1>2, <1>3 DEF RefreshInv

LEMMA AskStep ==
  ASSUME RefreshInv, NEW k \in DOMAIN refreshes, NEW f \in Refresh!Fields, Refresh!Ask(k, f)
  PROVE  RefreshInv'
<1> DEFINE old == refreshes[k]
           more == [g \in DOMAIN old.got \cup {f} |-> IF g = f THEN Refresh!Answer(f) ELSE old.got[g]]
<1>1. /\ old \in ReadType /\ old.at = "reading" /\ Honest(old) /\ old.got \in Got
      /\ Chain /\ refreshes \in Seq(ReadType)
  BY ReadIsSound DEF Refresh!Ask, Refresh!InFlight
<1>2. PICK a : a = Refresh!Answer(f)
  OBVIOUS
<1>3. a \in Int /\ a = AnswerOf(f, Len(heads))
  BY <1>1, <1>2, AnswerIsInt
<1>4. /\ more \in Got /\ DOMAIN more = DOMAIN old.got \cup {f} /\ more[f] = a
      /\ \A g \in DOMAIN old.got \ {f} : more[g] = old.got[g]
  <2>1. PICK got : got = old.got
    OBVIOUS
  <2>2. more = [g \in DOMAIN got \cup {f} |-> IF g = f THEN a ELSE got[g]]
    BY <1>2, <2>1
  <2>3. PICK D \in SUBSET Refresh!Fields : got \in [D -> Int]
    BY <1>1, <2>1 DEF Got
  <2>4. more \in [D \cup {f} -> Int] /\ D \cup {f} \in SUBSET Refresh!Fields
    BY <1>3, <2>2, <2>3
  <2>5. more \in Got
    BY <2>4 DEF Got
  <2>6. DOMAIN more = DOMAIN got \cup {f} /\ more[f] = a /\ \A g \in DOMAIN got \ {f} : more[g] = got[g]
    BY <2>2
  <2> QED BY <2>1, <2>5, <2>6
<1>5. PICK r : r = [old EXCEPT !.got = more]
  OBVIOUS
<1>6. refreshes' = [refreshes EXCEPT ![k] = r] /\ UNCHANGED <<heads, view>>
  BY <1>5 DEF Refresh!Ask
<1> HIDE DEF more
<1>7. r \in ReadType /\ r.at = "reading" /\ r.from = old.from /\ r.got = more
  BY <1>1, <1>4, <1>5 DEF ReadType
<1>8. Honest(r)
  <2>1. ASSUME NEW g \in DOMAIN more
        PROVE  \E b \in old.from..Len(heads) : more[g] = AnswerOf(g, b)
    <3>1. CASE g = f
      BY <1>1, <1>3, <1>4, <3>1 DEF Honest, Chain
    <3>2. CASE g # f
      BY <1>1, <1>4, <3>2 DEF Honest
    <3> QED BY <3>1, <3>2
  <2> QED BY <1>1, <1>7, <2>1 DEF Honest
<1>9. /\ DOMAIN refreshes' = DOMAIN refreshes /\ Len(refreshes') = Len(refreshes)
      /\ refreshes'[k].at = "reading" /\ \A j \in DOMAIN refreshes \ {k} : refreshes'[j] = refreshes[j]
  BY <1>1, <1>6, <1>7
<1>10. Shown'
  <2>1. Done' = Done /\ \A j \in Done : refreshes'[j] = refreshes[j]
    BY <1>1, <1>9 DEF Done
  <2> QED BY <1>6, <2>1 DEF RefreshInv, Shown
<1>11. OneInFlight'
  BY <1>1, <1>6, <1>9 DEF RefreshInv, OneInFlight, Refresh!InFlight, Refresh!Disabled
<1> QED BY <1>6, <1>7, <1>8, <1>10, <1>11, ReadChanged

LEMMA RefreshStep ==
  ASSUME RefreshInv, Refresh!Refresh
  PROVE  RefreshInv'
<1>1. PICK e : e = <<>>
  OBVIOUS
<1>2. PICK r : r = [at |-> "reading", got |-> e, from |-> Len(heads), to |-> 0]
  OBVIOUS
<1>3. /\ refreshes' = Append(refreshes, r) /\ UNCHANGED heads /\ ~Refresh!Disabled
      /\ view' = [view EXCEPT !.kind = "loading"]
  BY <1>1, <1>2 DEF Refresh!Refresh
<1>4. /\ heads \in Seq(HeadType) /\ Len(heads) \in Nat /\ Len(heads) >= 1 /\ refreshes \in Seq(ReadType)
      /\ Len(refreshes) \in Nat
  BY DEF RefreshInv, Chain
<1>5. r \in ReadType /\ r.at = "reading" /\ r.from = Len(heads) /\ DOMAIN r.got = {}
  <2>1. e \in Got /\ DOMAIN e = {}
    BY <1>1, NothingGot
  <2> QED BY <1>2, <1>4, <2>1 DEF ReadType
<1>6. /\ refreshes' \in Seq(ReadType) /\ Len(refreshes') = Len(refreshes) + 1
      /\ DOMAIN refreshes' = DOMAIN refreshes \cup {Len(refreshes) + 1}
      /\ refreshes'[Len(refreshes) + 1] = r
      /\ \A k \in DOMAIN refreshes : refreshes'[k] = refreshes[k]
  BY <1>3, <1>4, <1>5
<1>7. Chain'
  BY <1>3 DEF RefreshInv, Chain
<1>8. ASSUME NEW k \in 1..Len(refreshes') PROVE Honest(refreshes[k])'
  <2>1. PICK x : x = refreshes'[k]
    OBVIOUS
  <2>2. Honest(x)
    <3>1. CASE k \in 1..Len(refreshes)
      BY <1>4, <1>6, <2>1, <3>1 DEF RefreshInv
    <3>2. CASE k = Len(refreshes) + 1
      BY <1>4, <1>5, <1>6, <2>1, <3>2 DEF Honest
    <3> QED BY <1>4, <1>6, <3>1, <3>2
  <2>3. Honest(x)'
    BY <1>3, <2>2, HonestIfStill
  <2> QED BY <2>1, <2>3
<1>9. view' = [kind |-> "loading", last |-> view.last]
  BY <1>3 DEF RefreshInv, Shown
<1>10. Shown'
  <2>1. Done' = Done /\ \A j \in Done : refreshes'[j] = refreshes[j]
    BY <1>4, <1>5, <1>6 DEF Done
  <2>2. view'.kind = "loading" /\ view'.last = view.last /\ view' = [kind |-> view'.kind, last |-> view'.last]
    BY <1>9
  <2> QED BY <2>1, <2>2 DEF RefreshInv, Shown, ViewKinds
<1>11. OneInFlight'
  <2>1. \A k \in DOMAIN refreshes : ~Refresh!InFlight(k)
    BY <1>3 DEF RefreshInv, OneInFlight
  <2>2. Refresh!Disabled'
    BY <1>9 DEF Refresh!Disabled
  <2>3. ASSUME NEW k \in DOMAIN refreshes', Refresh!InFlight(k)' PROVE k = Len(refreshes')
    BY <1>6, <2>1, <2>3 DEF Refresh!InFlight
  <2>4. \E k \in DOMAIN refreshes' : Refresh!InFlight(k)'
    BY <1>5, <1>6 DEF Refresh!InFlight
  <2> QED BY <2>2, <2>3, <2>4 DEF OneInFlight
<1> QED BY <1>6, <1>7, <1>8, <1>10, <1>11 DEF RefreshInv

\* After the only read in flight is over, none is.
LEMMA NoneInFlight ==
  ASSUME RefreshInv, NEW k \in DOMAIN refreshes, Refresh!InFlight(k),
         DOMAIN refreshes' = DOMAIN refreshes, refreshes'[k].at # "reading",
         \A j \in DOMAIN refreshes \ {k} : refreshes'[j] = refreshes[j],
         view'.kind # "loading"
  PROVE  OneInFlight'
BY DEF RefreshInv, OneInFlight, Refresh!InFlight, Refresh!Disabled

LEMMA CompleteStep ==
  ASSUME RefreshInv, NEW k \in DOMAIN refreshes, Refresh!Complete(k)
  PROVE  RefreshInv'
<1> DEFINE old == refreshes[k]
           shown == [read |-> k, value |-> old.got, differences |-> Refresh!Differences(old.got)]
<1>1. /\ old \in ReadType /\ Honest(old) /\ Refresh!InFlight(k) /\ old.at = "reading"
      /\ Chain /\ refreshes \in Seq(ReadType) /\ DOMAIN old.got = Refresh!Fields
  BY ReadIsSound DEF Refresh!Complete, Refresh!InFlight
<1>2. PICK n : n = Len(heads)
  OBVIOUS
<1>3. PICK r : r = [old EXCEPT !.at = "done", !.to = n]
  OBVIOUS
<1>4. /\ refreshes' = [refreshes EXCEPT ![k] = r] /\ UNCHANGED heads
      /\ view' = [kind |-> "fresh", last |-> <<shown>>]
  BY <1>2, <1>3 DEF Refresh!Complete
<1>5. n \in Int /\ n >= 1 /\ old.from \in 1..n
  BY <1>1, <1>2 DEF Chain, Honest
<1>6. r \in ReadType /\ r.at = "done" /\ r.from = old.from /\ r.got = old.got /\ r.to = n
  BY <1>1, <1>3, <1>5 DEF ReadType
<1>7. Honest(r)
  BY <1>1, <1>2, <1>5, <1>6 DEF Honest
<1>8. /\ DOMAIN refreshes' = DOMAIN refreshes /\ refreshes'[k] = r
      /\ \A j \in DOMAIN refreshes \ {k} : refreshes'[j] = refreshes[j]
  BY <1>1, <1>4
<1>9. /\ k = Len(refreshes) /\ DOMAIN refreshes = 1..Len(refreshes) /\ Len(refreshes) \in Nat
  BY <1>1 DEF RefreshInv, OneInFlight
<1>10. Done' = Done \cup {k}
  BY <1>6, <1>8 DEF Done
<1>11. /\ view'.kind = "fresh" /\ view'.last # <<>> /\ view'.last[1] = shown
       /\ view' = [kind |-> view'.kind, last |-> view'.last]
  BY <1>4
<1>12. Shown'
  <2>1. shown.read = k /\ shown.value = old.got /\ shown.differences = Refresh!Differences(old.got)
    OBVIOUS
  <2>2. \A j \in Done' : j <= k
    BY <1>8, <1>9 DEF Done
  <2> HIDE DEF shown
  <2>3. view'.last[1].value = refreshes'[view'.last[1].read].got
    BY <1>6, <1>8, <1>11, <2>1
  <2>4. view'.last[1].differences = Refresh!Differences(view'.last[1].value)
    BY <1>11, <2>1
  <2>5. view'.last[1].read \in Done' /\ \A j \in Done' : j <= view'.last[1].read
    BY <1>10, <1>11, <2>1, <2>2
  <2>6. Done' # {} /\ view'.kind \in ViewKinds
    BY <1>10, <1>11 DEF ViewKinds
  <2>7. \A v : Refresh!Differences(v)' = Refresh!Differences(v)
    BY DEF Refresh!Differences, Refresh!ACCEPTED_SNAPSHOT
  <2> QED BY <1>11, <2>3, <2>4, <2>5, <2>6, <2>7 DEF Shown
<1>13. OneInFlight'
  BY <1>1, <1>6, <1>8, <1>11, NoneInFlight
<1> QED BY <1>4, <1>6, <1>7, <1>12, <1>13, ReadChanged

LEMMA FailStep ==
  ASSUME RefreshInv, NEW k \in DOMAIN refreshes, Refresh!Fail(k)
  PROVE  RefreshInv'
<1> DEFINE old == refreshes[k]
<1>1. /\ old \in ReadType /\ Honest(old) /\ Refresh!InFlight(k) /\ old.at = "reading"
      /\ refreshes \in Seq(ReadType)
  BY ReadIsSound DEF Refresh!Fail, Refresh!InFlight
<1>2. PICK e : e = <<>>
  OBVIOUS
<1>3. PICK r : r = [old EXCEPT !.at = "failed", !.got = e]
  OBVIOUS
<1>4. PICK kind : kind = IF view.last = <<>> THEN "unavailable" ELSE "stale"
  OBVIOUS
<1>5. /\ refreshes' = [refreshes EXCEPT ![k] = r] /\ UNCHANGED heads
      /\ view' = [view EXCEPT !.kind = kind]
  BY <1>2, <1>3, <1>4 DEF Refresh!Fail
<1>6. r \in ReadType /\ r.at = "failed" /\ r.from = old.from
  <2>1. e \in Got
    BY <1>2, NothingGot
  <2> QED BY <1>1, <1>3, <2>1 DEF ReadType
<1>7. Honest(r)
  BY <1>1, <1>6 DEF Honest
<1>8. /\ DOMAIN refreshes' = DOMAIN refreshes /\ refreshes'[k] = r
      /\ \A j \in DOMAIN refreshes \ {k} : refreshes'[j] = refreshes[j]
  BY <1>1, <1>5
<1>9. view'.kind = kind /\ view'.last = view.last /\ view' = [kind |-> view'.kind, last |-> view'.last]
  BY <1>5 DEF RefreshInv, Shown
<1>10. Done' = Done /\ \A j \in Done : refreshes'[j] = refreshes[j]
  BY <1>1, <1>6, <1>8 DEF Done
<1>11. Shown'
  <2>1. \A v : Refresh!Differences(v)' = Refresh!Differences(v)
    BY DEF Refresh!Differences, Refresh!ACCEPTED_SNAPSHOT
  <2>2. IF Done' = {} THEN view'.last = <<>>
        ELSE /\ view'.last # <<>>
             /\ view'.last[1].read \in Done' /\ \A j \in Done' : j <= view'.last[1].read
             /\ view'.last[1].value = refreshes'[view'.last[1].read].got
             /\ view'.last[1].differences = Refresh!Differences(view'.last[1].value)
    BY <1>9, <1>10 DEF RefreshInv, Shown
  <2>3. /\ kind \in {"unavailable", "stale"}
        /\ kind = "stale" => view.last # <<>>
        /\ kind = "unavailable" => view.last = <<>>
    BY <1>4
  <2> QED BY <1>9, <2>1, <2>2, <2>3 DEF Shown, ViewKinds
<1>12. OneInFlight'
  BY <1>1, <1>4, <1>6, <1>8, <1>9, NoneInFlight
<1> QED BY <1>5, <1>6, <1>7, <1>11, <1>12, ReadChanged

LEMMA RefreshInit == Refresh!Init => RefreshInv
<1> SUFFICES ASSUME Refresh!Init PROVE RefreshInv
  OBVIOUS
<1>1. PICK h : h = [paid |-> FALSE, score |-> 0, reserved |-> 0, exposure |-> 1]
  OBVIOUS
<1>2. h \in HeadType /\ h.reserved = 0 /\ h.exposure = 1 /\ ~h.paid
  BY <1>1 DEF HeadType
<1>3. Refresh!Others(h) = 0
  BY <1>2 DEF Refresh!Others
<1>4. heads = <<h>>
  BY <1>1 DEF Refresh!Init
<1>5. /\ heads \in Seq(HeadType) /\ Len(heads) = 1 /\ heads[1] = h
  BY <1>2, <1>4
<1>6. Chain
  BY <1>2, <1>3, <1>5 DEF Chain
<1>7. refreshes = <<>> /\ refreshes \in Seq(ReadType) /\ DOMAIN refreshes = {} /\ Len(refreshes) = 0
  BY DEF Refresh!Init
<1>8. PICK e : e = <<>>
  OBVIOUS
<1>9. view = [kind |-> "idle", last |-> e]
  BY <1>8 DEF Refresh!Init
<1>10. view.kind = "idle" /\ view.last = e /\ view = [kind |-> view.kind, last |-> view.last]
  BY <1>9
<1>11. Shown /\ OneInFlight
  BY <1>7, <1>8, <1>10 DEF Shown, Done, OneInFlight, ViewKinds, Refresh!Disabled
<1> QED BY <1>6, <1>7, <1>11 DEF RefreshInv

LEMMA RefreshNext == RefreshInv /\ [Refresh!Next]_refreshVars => RefreshInv'
<1> SUFFICES ASSUME RefreshInv, [Refresh!Next]_refreshVars PROVE RefreshInv'
  OBVIOUS
<1>1. ASSUME NEW k \in DOMAIN refreshes, (\E f \in Refresh!Fields : Refresh!Ask(k, f)) \/ Refresh!Complete(k) \/ Refresh!Fail(k)
      PROVE  RefreshInv'
  BY <1>1, AskStep, CompleteStep, FailStep
<1>2. CASE Refresh!Block
  BY <1>2, BlockStep
<1>3. CASE Refresh!Refresh
  BY <1>3, RefreshStep
<1>4. CASE UNCHANGED refreshVars
  <2>1. ASSUME NEW j \in 1..Len(refreshes') PROVE Honest(refreshes[j])'
    <3>1. PICK x : x = refreshes[j]
      OBVIOUS
    <3>2. Honest(x) /\ x = refreshes'[j]
      BY <1>4, <3>1 DEF RefreshInv, refreshVars
    <3>3. Honest(x)'
      BY <1>4, <3>2, HonestIfStill DEF refreshVars
    <3> QED BY <3>2, <3>3
  <2> QED BY <1>4, <2>1 DEF RefreshInv, refreshVars, Chain, Shown, Done, OneInFlight, Refresh!InFlight, Refresh!Disabled
<1> QED BY <1>1, <1>2, <1>3, <1>4 DEF Refresh!Next

\* The instance counts as the library does.
LEMMA SizeIsSize == ASSUME NEW S PROVE Refresh!Cardinality(S) = Cardinality(S)
BY DEF Refresh!Cardinality, Cardinality


LEMMA OneReadInFlight ==
  ASSUME RefreshInv
  PROVE  Refresh!Cardinality({k \in DOMAIN refreshes : Refresh!InFlight(k)}) = (IF view.kind = "loading" THEN 1 ELSE 0)
<1> DEFINE inFlight == {k \in DOMAIN refreshes : Refresh!InFlight(k)}
<1>1. CASE Refresh!Disabled
  <2>1. inFlight = {Len(refreshes)}
    BY <1>1 DEF RefreshInv, OneInFlight
  <2>2. Refresh!Cardinality(inFlight) = 1
    BY <2>1, FS_Singleton, SizeIsSize
  <2> QED BY <1>1, <2>2 DEF Refresh!Disabled
<1>2. CASE ~Refresh!Disabled
  <2>1. inFlight = {}
    BY <1>2 DEF RefreshInv, OneInFlight
  <2>2. Refresh!Cardinality(inFlight) = 0
    BY <2>1, FS_EmptySet, SizeIsSize
  <2> QED BY <1>2, <2>2 DEF Refresh!Disabled
<1> QED BY <1>1, <1>2

\* The read shown is the largest of those that succeeded.
LEMMA LastSuccess ==
  ASSUME RefreshInv
  PROVE  Refresh!ShownIsTheLastSuccess
<1>1. CASE Done = {}
  BY <1>1 DEF RefreshInv, Shown, Refresh!ShownIsTheLastSuccess, Done
<1>2. CASE Done # {}
  <2> DEFINE n == view.last[1].read
  <2>1. /\ n \in Done /\ \A j \in Done : j <= n
        /\ view.last[1].value = refreshes[n].got
    BY <1>2 DEF RefreshInv, Shown
  <2>2. Done \subseteq Int
    BY DEF RefreshInv, Done
  <2> HIDE DEF n
  <2>3. n = CHOOSE k \in Done : \A j \in Done : j <= k
    <3>1. \A k \in Done : (\A j \in Done : j <= k) => k = n
      BY <2>1, <2>2
    <3> QED BY <2>1, <3>1
  <2> QED BY <1>2, <2>1, <2>3 DEF Refresh!ShownIsTheLastSuccess, Done, n
<1> QED BY <1>1, <1>2

LEMMA MatchIsTrue ==
  ASSUME RefreshInv
  PROVE  Refresh!MatchWasTrue
<1> SUFFICES ASSUME view.last # <<>>, view.last[1].differences = {},
                    refreshes[view.last[1].read].to - refreshes[view.last[1].read].from <= 1
             PROVE  \E b \in refreshes[view.last[1].read].from..refreshes[view.last[1].read].to :
                       Refresh!Matches(heads[b])
  BY DEF Refresh!MatchWasTrue
<1> DEFINE n == view.last[1].read
           r == refreshes[n]
           value == view.last[1].value
<1>1. n \in Done /\ value = r.got /\ Refresh!Differences(value) = {}
  BY DEF RefreshInv, Shown
<1>2. /\ r \in ReadType /\ Honest(r) /\ r.from \in Int /\ r.to \in Int /\ r.at = "done" /\ Chain
  BY <1>1, ReadIsSound DEF Done
<1>3. \A f \in {"deal", "score", "available", "reserved", "exposure"} :
         /\ f \in Refresh!Fields
         /\ r.got[f] = Refresh!ACCEPTED_SNAPSHOT[f]
         /\ \E b \in r.from..r.to : r.got[f] = AnswerOf(f, b)
  <2>1. {"deal", "score", "available", "reserved", "exposure"} \subseteq DOMAIN Refresh!ACCEPTED_SNAPSHOT
    BY DEF Refresh!ACCEPTED_SNAPSHOT
  <2>2. {"deal", "score", "available", "reserved", "exposure"} \subseteq Refresh!Fields
    BY DEF Refresh!Fields, Refresh!First, Refresh!Second
  <2> QED BY <1>1, <1>2, <2>1, <2>2 DEF Refresh!Differences, Honest
<1> DEFINE i == r.from
           j == r.to
<1>4. i \in 1..Len(heads) /\ j \in i..Len(heads) /\ j - i <= 1 /\ Len(heads) \in Nat
  BY <1>2 DEF Honest, Chain
<1>5. \A b \in i..j : b = i \/ b = j
  BY <1>2, <1>4
<1> DEFINE h == heads[i]
           g == heads[j]
<1>6. h \in HeadType /\ h.reserved >= 0 /\ Refresh!Others(h) >= 0 /\ g \in HeadType
  <2>1. i \in 1..Len(heads) /\ j \in 1..Len(heads)
    BY <1>2, <1>4
  <2> HIDE DEF i, j
  <2> QED BY <1>2, <2>1 DEF Chain
<1>7. g \in Refresh!Successors(h) \cup {h}
  <2>1. CASE j = i
    BY <2>1
  <2>2. CASE j = i + 1
    <3>1. i \in 1..(Len(heads) - 1)
      BY <1>2, <1>4, <2>2
    <3> QED BY <1>2, <2>2, <3>1 DEF Chain
  <2>3. i \in Int /\ j \in Int
    BY <1>2
  <2>4. j = i \/ j = i + 1
    <3> HIDE DEF i, j
    <3> QED BY <1>4, <2>3
  <2> QED BY <2>1, <2>2, <2>4
<1> HIDE DEF r, i, j, h, g, n, value
<1>8. Refresh!ACCEPTED_SNAPSHOT["deal"] = 1 /\ Refresh!ACCEPTED_SNAPSHOT["score"] = 1
      /\ Refresh!ACCEPTED_SNAPSHOT["available"] = 3 /\ Refresh!ACCEPTED_SNAPSHOT["reserved"] = 0
      /\ Refresh!ACCEPTED_SNAPSHOT["exposure"] = 0
  BY DEF Refresh!ACCEPTED_SNAPSHOT, Refresh!LimitAt, Refresh!AcceptedScore
<1>9. \A b : /\ AnswerOf("deal", b) = (IF heads[b].paid THEN 1 ELSE 0)
             /\ AnswerOf("score", b) = heads[b].score
             /\ AnswerOf("available", b) = (heads[b].score + 2) - Refresh!Used(heads[b])
             /\ AnswerOf("reserved", b) = heads[b].reserved
             /\ AnswerOf("exposure", b) = heads[b].exposure
  BY DEF AnswerOf, Refresh!LimitAt
<1>10. \A f \in {"deal", "score", "available", "reserved", "exposure"} :
          AnswerOf(f, i) = Refresh!ACCEPTED_SNAPSHOT[f] \/ AnswerOf(f, j) = Refresh!ACCEPTED_SNAPSHOT[f]
  BY <1>3, <1>5 DEF i, j
<1>11. h.paid \/ g.paid
  BY <1>8, <1>9, <1>10 DEF h, g
<1>12. h.score = 1 \/ g.score = 1
  BY <1>8, <1>9, <1>10 DEF h, g
<1>13. (h.score + 2) - Refresh!Used(h) = 3 \/ (g.score + 2) - Refresh!Used(g) = 3
  BY <1>8, <1>9, <1>10 DEF h, g
<1>14. h.reserved = 0 \/ g.reserved = 0
  BY <1>8, <1>9, <1>10 DEF h, g
<1>15. h.exposure = 0 \/ g.exposure = 0
  BY <1>8, <1>9, <1>10 DEF h, g
<1>16. Refresh!Matches(h) \/ Refresh!Matches(g)
  BY <1>6, <1>7, <1>11, <1>12, <1>13, <1>14, <1>15, OneOfTwoMatches
<1>17. i \in i..j /\ j \in i..j
  BY <1>4
<1> QED BY <1>16, <1>17 DEF h, g, i, j, r, n

LEMMA RefreshInvImplies == RefreshInv => Refresh!ShownIsTrue
<1> SUFFICES ASSUME RefreshInv PROVE Refresh!ShownIsTrue
  OBVIOUS
<1>1. Refresh!RefreshTypeOK
  BY OneReadInFlight DEF RefreshInv, Shown, ViewKinds, Refresh!RefreshTypeOK
<1> QED BY <1>1, LastSuccess, MatchIsTrue DEF Refresh!ShownIsTrue

-----------------------------------------------------------------------------
(***************************************************************************)
(* The network probe.                                                      *)
(* A payment is attested within a leap of its source block and its proof   *)
(* is executed within the allowance; the grace period derived is at least  *)
(* the largest lag seen, the catch-up and the allowance together.          *)
(***************************************************************************)

ProbePlaces == {Probing!Sequence[i] : i \in DOMAIN Probing!Sequence} \cup {"aborted"}
ProbeType == [at : ProbePlaces, interval : Int, catchup : Int, single : {"none", "measured", "verified", "proven"},
              confirmed : BOOLEAN, grace : Int]
SampleType == [head : Int, attested : Int]
LagType == [at : {"off", "running", "done", "failed"}, samples : Seq(SampleType), head : Int, attested : Int]
DealType == [due : Int, paid : Int, seen : Int, applied : BOOLEAN]
SectionStates == {"pending", "done", "failed"}

ProbeTypes ==
    /\ head \in Nat /\ attestedHeight \in Nat /\ attestedHeight <= head
    /\ section \in [Probing!Sections -> SectionStates]
    /\ probe \in ProbeType /\ probe.interval \in {Probing!Unknown, Interval} /\ probe.catchup \in {Probing!Unknown, MaxCatchup}
    /\ lag \in LagType
    /\ deal \in DealType

\* What the sampling has come to.
Sampling ==
    /\ lag.at = "off" <=> probe.at \in {"endpoints", "registry", "attestation", "aborted"}
    /\ IF lag.at = "done" THEN Len(lag.samples) = lagSamples ELSE Len(lag.samples) < lagSamples
    /\ lag.at = "failed" <=> section["lag"] = "failed"
    /\ probe.at = "finished" => lag.at \in {"done", "failed"}
    /\ section["lag"] = "done" <=> probe.at = "finished" /\ lag.at = "done"
    /\ section["grace"] = IF section["lag"] = "done" THEN "done" ELSE "pending"
    /\ probe.grace # Probing!Unknown => probe.at = "finished" /\ lag.at = "done"

\* What has been answered by the time main is at a place.
Answered ==
    /\ probe.at \notin {"endpoints", "aborted"} => section["endpoints"] # "pending"
    /\ probe.at \notin {"endpoints", "registry", "aborted"} => section["registry"] # "pending"
    /\ lag.at # "off" => section["attestation"] # "pending"
    /\ probe.at \in {"batch", "emit", "decode", "grace", "finished"} =>
          section["verify"] # "pending" /\ section["gasSingle"] # "pending"
    /\ probe.at \in {"emit", "decode", "grace", "finished"} => section["gasBatch"] # "pending"
    /\ IF probe.at \in {"decode", "grace", "finished"} THEN section["emit"] # "pending"
                                                      ELSE section["emit"] = "pending"
    /\ IF probe.at \in {"grace", "finished"} THEN section["decode"] # "pending"
                                             ELSE section["decode"] = "pending"
    /\ probe.at \in {"endpoints", "registry", "attestation", "single"} => probe.single = "none"
    /\ probe.single = "measured" => section["verify"] = "done"
    /\ probe.single # "none" => section["gasSingle"] = "done"
    /\ section["emit"] = "done" => section["verify"] = "done"
    /\ section["decode"] = "done" => section["gasSingle"] = "done"

\* How far the head may have gone beyond the block of a payment.
Leap == Probing!MaxLag + MaxCatchup
Timely ==
    /\ deal.due # Probing!Unknown => probe.grace # Probing!Unknown
    /\ probe.grace # Probing!Unknown =>
          /\ Probing!MaxLag \in Int /\ probe.grace >= 1
          /\ probe.grace >= Probing!Known(probe.catchup, DefaultCatchup) + Probing!MaxLag + SUBMISSION_ALLOWANCE_BLOCKS
    /\ deal.paid # Probing!Unknown =>
          deal.due # Probing!Unknown /\ deal.paid >= 0 /\ deal.paid <= deal.due /\ deal.paid <= head
    /\ deal.seen # Probing!Unknown => deal.paid # Probing!Unknown /\ deal.seen <= head
    /\ deal.paid # Probing!Unknown /\ deal.seen = Probing!Unknown =>
          /\ attestedHeight < deal.paid
          /\ head = deal.paid \/ (Leap >= 1 /\ head <= attestedHeight + Leap)
    /\ deal.seen # Probing!Unknown /\ ~deal.applied =>
          /\ head <= deal.seen + SUBMISSION_ALLOWANCE_BLOCKS
          /\ deal.seen = deal.paid \/ (Leap >= 1 /\ deal.seen <= deal.paid + Leap - 1)
          /\ head = deal.paid \/ Leap >= 1

ProbeInv == ProbeTypes /\ Sampling /\ Answered /\ Timely

-----------------------------------------------------------------------------
LEMMA AfterIs ==
  /\ Probing!After("endpoints") = "registry" /\ Probing!After("registry") = "attestation"
  /\ Probing!After("attestation") = "single" /\ Probing!After("single") = "batch" /\ Probing!After("batch") = "emit"
  /\ Probing!After("emit") = "decode" /\ Probing!After("decode") = "grace" /\ Probing!After("grace") = "finished"
<1>1. /\ DOMAIN Probing!Sequence = 1..9
      /\ Probing!Sequence[1] = "endpoints" /\ Probing!Sequence[2] = "registry" /\ Probing!Sequence[3] = "attestation"
      /\ Probing!Sequence[4] = "single" /\ Probing!Sequence[5] = "batch" /\ Probing!Sequence[6] = "emit"
      /\ Probing!Sequence[7] = "decode" /\ Probing!Sequence[8] = "grace" /\ Probing!Sequence[9] = "finished"
  BY DEF Probing!Sequence
<1>2. \A i, j \in 1..9 : Probing!Sequence[i] = Probing!Sequence[j] => i = j
  <2>1. ASSUME NEW i \in 1..9, NEW j \in 1..9, Probing!Sequence[i] = Probing!Sequence[j] PROVE i = j
    <3>1. \/ i = 1 \/ i = 2 \/ i = 3 \/ i = 4 \/ i = 5 \/ i = 6 \/ i = 7 \/ i = 8 \/ i = 9
      OBVIOUS
    <3>2. \/ j = 1 \/ j = 2 \/ j = 3 \/ j = 4 \/ j = 5 \/ j = 6 \/ j = 7 \/ j = 8 \/ j = 9
      OBVIOUS
    <3> QED BY <1>1, <2>1, <3>1, <3>2
  <2> QED BY <2>1
<1>3. ASSUME NEW i \in 1..8 PROVE Probing!After(Probing!Sequence[i]) = Probing!Sequence[i + 1]
  <2>1. i \in DOMAIN Probing!Sequence
    BY <1>1
  <2>2. \A k \in DOMAIN Probing!Sequence : Probing!Sequence[k] = Probing!Sequence[i] => k = i
    BY <1>1, <1>2
  <2>3. (CHOOSE k \in DOMAIN Probing!Sequence : Probing!Sequence[k] = Probing!Sequence[i]) = i
    BY <2>1, <2>2
  <2> QED BY <2>3 DEF Probing!After
<1>4. /\ Probing!After(Probing!Sequence[1]) = Probing!Sequence[2] /\ Probing!After(Probing!Sequence[2]) = Probing!Sequence[3]
      /\ Probing!After(Probing!Sequence[3]) = Probing!Sequence[4] /\ Probing!After(Probing!Sequence[4]) = Probing!Sequence[5]
      /\ Probing!After(Probing!Sequence[5]) = Probing!Sequence[6] /\ Probing!After(Probing!Sequence[6]) = Probing!Sequence[7]
      /\ Probing!After(Probing!Sequence[7]) = Probing!Sequence[8] /\ Probing!After(Probing!Sequence[8]) = Probing!Sequence[9]
  BY <1>3
<1> QED BY <1>1, <1>4

LEMMA PlacesAre ==
  ProbePlaces = {"endpoints", "registry", "attestation", "single", "batch", "emit", "decode",
            "grace", "finished", "aborted"}
<1>1. {Probing!Sequence[i] : i \in DOMAIN Probing!Sequence} =
         {"endpoints", "registry", "attestation", "single", "batch", "emit", "decode",
          "grace", "finished"}
  <2>1. /\ DOMAIN Probing!Sequence = 1..9
        /\ Probing!Sequence[1] = "endpoints" /\ Probing!Sequence[2] = "registry" /\ Probing!Sequence[3] = "attestation"
        /\ Probing!Sequence[4] = "single" /\ Probing!Sequence[5] = "batch" /\ Probing!Sequence[6] = "emit"
        /\ Probing!Sequence[7] = "decode" /\ Probing!Sequence[8] = "grace" /\ Probing!Sequence[9] = "finished"
    BY DEF Probing!Sequence
  <2>2. \A i \in 1..9 : \/ i = 1 \/ i = 2 \/ i = 3 \/ i = 4 \/ i = 5 \/ i = 6 \/ i = 7 \/ i = 8 \/ i = 9
    OBVIOUS
  <2>3. {Probing!Sequence[i] : i \in 1..9} \subseteq {"endpoints", "registry", "attestation", "single", "batch",
                                               "emit", "decode", "grace", "finished"}
    BY <2>1, <2>2
  <2>4. {"endpoints", "registry", "attestation", "single", "batch",
         "emit", "decode", "grace", "finished"} \subseteq {Probing!Sequence[i] : i \in 1..9}
    BY <2>1
  <2> QED BY <2>1, <2>3, <2>4
<1> QED BY <1>1 DEF ProbePlaces

LEMMA SectionsAre ==
  ASSUME NEW ids \in SUBSET Probing!Sections, NEW state \in SectionStates, section \in [Probing!Sections -> SectionStates],
         Probing!Report(ids, state)
  PROVE  /\ section' \in [Probing!Sections -> SectionStates]
         /\ \A s \in Probing!Sections : section'[s] = IF s \in ids THEN state ELSE section[s]
BY DEF Probing!Report

\* The constant and the clocks it is for are as they were.
LEMMA TimelyIfStill ==
  ASSUME Timely, UNCHANGED <<head, attestedHeight, deal>>, lag'.samples = lag.samples,
         probe'.grace = probe.grace, probe'.catchup = probe.catchup
  PROVE  Timely'
<1>1. Probing!MaxLag' = Probing!MaxLag /\ Leap' = Leap
  BY DEF Probing!MaxLag, Leap
<1>2. Probing!Known(probe.catchup, DefaultCatchup)' = Probing!Known(probe.catchup, DefaultCatchup)
  BY DEF Probing!Known
<1> QED BY <1>1, <1>2 DEF Timely

\* Before there is a constant there is no deal.
LEMMA TimelyIfNone ==
  ASSUME Timely, probe.grace = Probing!Unknown, probe'.grace = Probing!Unknown, deal' = deal
  PROVE  Timely'
BY DEF Timely

LEMMA AnsweredStill == ASSUME Answered, UNCHANGED <<section, probe, lag>> PROVE Answered'
BY DEF Answered

LEMMA SamplingStill == ASSUME Sampling, UNCHANGED <<section, probe, lag>> PROVE Sampling'
BY DEF Sampling

\* A block: the backlog it may make is the one the constant is for.
LEMMA StepSourceBlock == ASSUME ProbeInv, Probing!SourceBlock PROVE ProbeInv'
<1>1. /\ head' = head + 1 /\ UNCHANGED <<attestedHeight, section, probe, lag, deal>>
      /\ head + 1 - attestedHeight <= Probing!Backlog
      /\ deal.seen # Probing!Unknown /\ ~deal.applied => head < deal.seen + SUBMISSION_ALLOWANCE_BLOCKS
  BY DEF Probing!SourceBlock
<1>2. ProbeTypes'
  BY <1>1 DEF ProbeInv, ProbeTypes
<1>3. Timely'
  <2>1. head \in Nat /\ attestedHeight \in Nat /\ attestedHeight <= head /\ deal \in DealType
    BY DEF ProbeInv, ProbeTypes
  <2>2. Probing!MaxLag' = Probing!MaxLag /\ Leap' = Leap
    BY <1>1 DEF Probing!MaxLag, Leap
  <2>3. Probing!Known(probe.catchup, DefaultCatchup)' = Probing!Known(probe.catchup, DefaultCatchup)
    BY <1>1 DEF Probing!Known
  <2>4. deal.due # Probing!Unknown => Probing!Backlog = Leap /\ Leap \in Int
    BY ProbeConstants DEF ProbeInv, Timely, Probing!Backlog, Leap
  <2>5. Timely
    BY DEF ProbeInv
  <2>6. deal'.paid # Probing!Unknown /\ deal'.seen = Probing!Unknown =>
          /\ attestedHeight' < deal'.paid
          /\ head' = deal'.paid \/ (Leap' >= 1 /\ head' <= attestedHeight' + Leap')
    BY <1>1, <2>1, <2>2, <2>4, <2>5 DEF Timely, DealType
  <2>7. deal'.seen # Probing!Unknown /\ ~deal'.applied =>
          /\ head' <= deal'.seen + SUBMISSION_ALLOWANCE_BLOCKS
          /\ deal'.seen = deal'.paid \/ (Leap' >= 1 /\ deal'.seen <= deal'.paid + Leap' - 1)
          /\ head' = deal'.paid \/ Leap' >= 1
    BY <1>1, <2>1, <2>2, <2>4, <2>5, ProbeConstants DEF Timely, DealType
  <2>8. /\ deal'.paid # Probing!Unknown =>
             deal'.due # Probing!Unknown /\ deal'.paid >= 0 /\ deal'.paid <= deal'.due /\ deal'.paid <= head'
        /\ deal'.seen # Probing!Unknown => deal'.paid # Probing!Unknown /\ deal'.seen <= head'
    BY <1>1, <2>1, <2>5 DEF Timely, DealType
  <2>9. /\ deal'.due # Probing!Unknown => probe'.grace # Probing!Unknown
        /\ probe'.grace # Probing!Unknown =>
              /\ Probing!MaxLag' \in Int /\ probe'.grace >= 1
              /\ probe'.grace >= Probing!Known(probe.catchup, DefaultCatchup)' + Probing!MaxLag' + SUBMISSION_ALLOWANCE_BLOCKS
    BY <1>1, <2>2, <2>3, <2>5 DEF Timely
  <2> QED BY <2>6, <2>7, <2>8, <2>9 DEF Timely
<1> QED BY <1>1, <1>2, <1>3, AnsweredStill, SamplingStill DEF ProbeInv

\* An attestation: the first at or above the payment is when it is seen.
LEMMA StepAttest == ASSUME ProbeInv, Probing!Attest PROVE ProbeInv'
<1>1. PICK n \in 1..MaxHead : attestedHeight + n * Interval <= head /\ attestedHeight' = attestedHeight + n * Interval
  BY DEF Probing!Attest
<1>2. /\ UNCHANGED <<head, section, probe, lag>>
      /\ deal' = IF deal.paid # Probing!Unknown /\ deal.seen = Probing!Unknown /\ attestedHeight' >= deal.paid
                 THEN [deal EXCEPT !.seen = head] ELSE deal
  BY DEF Probing!Attest
<1>3. head \in Nat /\ attestedHeight \in Nat /\ attestedHeight <= head /\ deal \in DealType
  BY DEF ProbeInv, ProbeTypes
<1>4. n * Interval \in Nat
  <2>1. n \in Nat /\ Interval \in Nat
    BY ProbeConstants
  <2> QED BY <2>1
<1>5. attestedHeight' \in Nat /\ attestedHeight <= attestedHeight' /\ attestedHeight' <= head
  <2> DEFINE m == n * Interval
  <2>1. m \in Nat /\ attestedHeight + m <= head /\ attestedHeight' = attestedHeight + m
    BY <1>1, <1>4
  <2> HIDE DEF m
  <2> QED BY <1>3, <2>1
<1>6. Timely
  BY DEF ProbeInv
<1>7. Probing!MaxLag' = Probing!MaxLag /\ Leap' = Leap
  BY <1>2 DEF Probing!MaxLag, Leap
<1>8. Probing!Known(probe.catchup, DefaultCatchup)' = Probing!Known(probe.catchup, DefaultCatchup)
  BY <1>2 DEF Probing!Known
<1>9. deal.due # Probing!Unknown => Leap \in Int
  BY <1>6, ProbeConstants DEF Timely, Leap
<1>10. /\ deal' \in DealType /\ deal'.due = deal.due /\ deal'.paid = deal.paid /\ deal'.applied = deal.applied
       /\ deal'.seen = IF deal.paid # Probing!Unknown /\ deal.seen = Probing!Unknown /\ attestedHeight' >= deal.paid
                       THEN head ELSE deal.seen
  BY <1>2, <1>3 DEF DealType
<1>11. ProbeTypes'
  BY <1>2, <1>3, <1>5, <1>10 DEF ProbeInv, ProbeTypes
<1>12. Timely'
  <2>1. deal'.paid # Probing!Unknown /\ deal'.seen = Probing!Unknown =>
          /\ attestedHeight' < deal'.paid
          /\ head' = deal'.paid \/ (Leap' >= 1 /\ head' <= attestedHeight' + Leap')
    BY <1>2, <1>3, <1>5, <1>6, <1>7, <1>9, <1>10 DEF Timely, DealType, Probing!Unknown
  <2>2. deal'.seen # Probing!Unknown /\ ~deal'.applied =>
          /\ head' <= deal'.seen + SUBMISSION_ALLOWANCE_BLOCKS
          /\ deal'.seen = deal'.paid \/ (Leap' >= 1 /\ deal'.seen <= deal'.paid + Leap' - 1)
          /\ head' = deal'.paid \/ Leap' >= 1
    BY <1>2, <1>3, <1>5, <1>6, <1>7, <1>9, <1>10, ProbeConstants DEF Timely, DealType
  <2>3. /\ deal'.paid # Probing!Unknown =>
             deal'.due # Probing!Unknown /\ deal'.paid >= 0 /\ deal'.paid <= deal'.due /\ deal'.paid <= head'
        /\ deal'.seen # Probing!Unknown => deal'.paid # Probing!Unknown /\ deal'.seen <= head'
    BY <1>2, <1>3, <1>6, <1>10 DEF Timely, DealType
  <2>4. /\ deal'.due # Probing!Unknown => probe'.grace # Probing!Unknown
        /\ probe'.grace # Probing!Unknown =>
              /\ Probing!MaxLag' \in Int /\ probe'.grace >= 1
              /\ probe'.grace >= Probing!Known(probe.catchup, DefaultCatchup)' + Probing!MaxLag' + SUBMISSION_ALLOWANCE_BLOCKS
    BY <1>2, <1>6, <1>7, <1>8, <1>10 DEF Timely
  <2> QED BY <2>1, <2>2, <2>3, <2>4 DEF Timely
<1> QED BY <1>2, <1>11, <1>12, AnsweredStill, SamplingStill DEF ProbeInv

\* A deal of the deployed registry, before it is paid.
LEMMA StepCreate == ASSUME ProbeInv, Probing!Create PROVE ProbeInv'
<1>1. PICK due \in head..(head + 1) : deal' = [deal EXCEPT !.due = due]
  BY DEF Probing!Create
<1>2. probe.grace # Probing!Unknown /\ deal.due = Probing!Unknown /\ UNCHANGED <<head, attestedHeight, section, probe, lag>>
  BY DEF Probing!Create
<1>3. head \in Nat /\ deal \in DealType /\ Timely
  BY DEF ProbeInv, ProbeTypes
<1>4. /\ deal' \in DealType /\ deal'.due = due /\ deal'.paid = deal.paid /\ deal'.applied = deal.applied
      /\ deal'.seen = deal.seen
  BY <1>1, <1>3 DEF DealType
<1>5. deal'.paid = Probing!Unknown /\ deal'.seen = Probing!Unknown
  BY <1>2, <1>3, <1>4 DEF Timely
<1>6. ProbeTypes'
  BY <1>2, <1>4 DEF ProbeInv, ProbeTypes
<1>7. Probing!MaxLag' = Probing!MaxLag /\ Probing!Known(probe.catchup, DefaultCatchup)' = Probing!Known(probe.catchup, DefaultCatchup)
  BY <1>2 DEF Probing!MaxLag, Probing!Known
<1>8. Timely'
  BY <1>2, <1>3, <1>5, <1>7 DEF Timely
<1> QED BY <1>2, <1>6, <1>8, AnsweredStill, SamplingStill DEF ProbeInv

\* A payment no later than it is due.
LEMMA StepPay == ASSUME ProbeInv, Probing!Pay PROVE ProbeInv'
<1>1. /\ deal.due # Probing!Unknown /\ deal.paid = Probing!Unknown /\ head <= deal.due
      /\ deal' = [deal EXCEPT !.paid = head, !.seen = IF attestedHeight >= head THEN head ELSE @]
      /\ UNCHANGED <<head, attestedHeight, section, probe, lag>>
  BY DEF Probing!Pay
<1>2. head \in Nat /\ attestedHeight \in Nat /\ deal \in DealType /\ Timely
  BY DEF ProbeInv, ProbeTypes
<1>3. deal' = [due |-> deal.due, paid |-> head,
               seen |-> IF attestedHeight >= head THEN head ELSE deal.seen, applied |-> deal.applied]
  BY <1>1, <1>2 DEF DealType
<1>4. /\ deal' \in DealType /\ deal'.due = deal.due /\ deal'.paid = head /\ deal'.applied = deal.applied
      /\ deal'.seen = IF attestedHeight >= head THEN head ELSE deal.seen
  BY <1>2, <1>3 DEF DealType
<1>5. deal.seen = Probing!Unknown
  BY <1>1, <1>2 DEF Timely
<1>6. ProbeTypes'
  BY <1>1, <1>4 DEF ProbeInv, ProbeTypes
<1>7. /\ Probing!MaxLag' = Probing!MaxLag /\ Leap' = Leap
      /\ Probing!Known(probe.catchup, DefaultCatchup)' = Probing!Known(probe.catchup, DefaultCatchup)
  BY <1>1 DEF Probing!MaxLag, Probing!Known, Leap
<1>8. /\ deal'.due # Probing!Unknown => probe'.grace # Probing!Unknown
      /\ probe'.grace # Probing!Unknown =>
            /\ Probing!MaxLag' \in Int /\ probe'.grace >= 1
            /\ probe'.grace >= Probing!Known(probe.catchup, DefaultCatchup)' + Probing!MaxLag' + SUBMISSION_ALLOWANCE_BLOCKS
  BY <1>1, <1>2, <1>4, <1>7 DEF Timely
<1>9. /\ deal'.due # Probing!Unknown /\ deal'.paid >= 0 /\ deal'.paid <= deal'.due /\ deal'.paid <= head'
      /\ deal'.paid # Probing!Unknown /\ (deal'.seen # Probing!Unknown => deal'.seen <= head')
      /\ deal'.seen = Probing!Unknown => attestedHeight' < deal'.paid /\ head' = deal'.paid
      /\ deal'.seen # Probing!Unknown => deal'.seen = deal'.paid /\ head' = deal'.paid /\ deal'.seen = head'
  BY <1>1, <1>2, <1>4, <1>5 DEF Probing!Unknown
<1>10. deal'.seen # Probing!Unknown => head' <= deal'.seen + SUBMISSION_ALLOWANCE_BLOCKS
  BY <1>1, <1>2, <1>9, ProbeConstants
<1>11. Timely'
  BY <1>8, <1>9, <1>10 DEF Timely
<1> QED BY <1>1, <1>6, <1>11, AnsweredStill, SamplingStill DEF ProbeInv

\* The worker's application of it.
LEMMA StepApply == ASSUME ProbeInv, Probing!Apply PROVE ProbeInv'
<1>1. deal' = [deal EXCEPT !.applied = TRUE] /\ UNCHANGED <<head, attestedHeight, section, probe, lag>>
  BY DEF Probing!Apply
<1>2. deal \in DealType /\ Timely
  BY DEF ProbeInv, ProbeTypes
<1>3. deal' \in DealType /\ deal'.due = deal.due /\ deal'.paid = deal.paid /\ deal'.seen = deal.seen
  BY <1>1, <1>2 DEF DealType
<1>4. deal'.applied
  BY <1>1, <1>2, Zenon DEF DealType
<1>5. ProbeTypes'
  BY <1>1, <1>3 DEF ProbeInv, ProbeTypes
<1>6. /\ Probing!MaxLag' = Probing!MaxLag /\ Leap' = Leap
      /\ Probing!Known(probe.catchup, DefaultCatchup)' = Probing!Known(probe.catchup, DefaultCatchup)
  BY <1>1 DEF Probing!MaxLag, Probing!Known, Leap
<1>7. Timely'
  BY <1>1, <1>2, <1>3, <1>4, <1>6 DEF Timely
<1> QED BY <1>1, <1>5, <1>7, AnsweredStill, SamplingStill DEF ProbeInv

-----------------------------------------------------------------------------
\* The samplings' steps leave main where it is, and the clocks.
LEMMA StepAskAttested == ASSUME ProbeInv, Probing!AskAttested PROVE ProbeInv'
<1>1. lag' = [lag EXCEPT !.attested = attestedHeight] /\ UNCHANGED <<head, attestedHeight, section, probe, deal>>
  BY DEF Probing!AskAttested
<1>2. lag \in LagType /\ attestedHeight \in Nat
  BY DEF ProbeInv, ProbeTypes
<1>3. lag' \in LagType /\ lag'.at = lag.at /\ lag'.samples = lag.samples
  BY <1>1, <1>2 DEF LagType
<1>4. ProbeTypes'
  BY <1>1, <1>3 DEF ProbeInv, ProbeTypes
<1>5. Sampling'
  BY <1>1, <1>3 DEF ProbeInv, Sampling
<1>6. Answered'
  BY <1>1, <1>3 DEF ProbeInv, Answered
<1> QED BY <1>1, <1>3, <1>4, <1>5, <1>6, TimelyIfStill DEF ProbeInv

LEMMA StepAskHead == ASSUME ProbeInv, Probing!AskHead PROVE ProbeInv'
<1>1. lag' = [lag EXCEPT !.head = head] /\ UNCHANGED <<head, attestedHeight, section, probe, deal>>
  BY DEF Probing!AskHead
<1>2. lag \in LagType /\ head \in Nat
  BY DEF ProbeInv, ProbeTypes
<1>3. lag' \in LagType /\ lag'.at = lag.at /\ lag'.samples = lag.samples
  BY <1>1, <1>2 DEF LagType
<1>4. ProbeTypes'
  BY <1>1, <1>3 DEF ProbeInv, ProbeTypes
<1>5. Sampling'
  BY <1>1, <1>3 DEF ProbeInv, Sampling
<1>6. Answered'
  BY <1>1, <1>3 DEF ProbeInv, Answered
<1> QED BY <1>1, <1>3, <1>4, <1>5, <1>6, TimelyIfStill DEF ProbeInv

\* No constant while samples are still being taken.
LEMMA StepSample == ASSUME ProbeInv, Probing!Sample PROVE ProbeInv'
<1> DEFINE found == [head |-> lag.head, attested |-> lag.attested]
           taken == Append(lag.samples, found)
           place == IF Len(lag.samples) + 1 = lagSamples THEN "done" ELSE lag.at
<1>1. /\ lag.at = "running"
      /\ lag' = [lag EXCEPT !.samples = taken, !.head = Probing!Unknown, !.attested = Probing!Unknown, !.at = place]
      /\ UNCHANGED <<head, attestedHeight, section, probe, deal>>
  BY DEF Probing!Sample
<1>2. lag \in LagType /\ Sampling /\ probe \in ProbeType
  BY DEF ProbeInv, ProbeTypes
<1>3. found \in SampleType /\ lag.samples \in Seq(SampleType)
  BY <1>2 DEF LagType, SampleType
<1> HIDE DEF found
<1>4. taken \in Seq(SampleType) /\ Len(taken) = Len(lag.samples) + 1 /\ Len(lag.samples) \in Nat
  BY <1>3
<1> HIDE DEF taken
<1>5. place \in {"running", "done"} /\ (place = "done" <=> Len(lag.samples) + 1 = lagSamples)
  BY <1>1
<1> HIDE DEF place
<1>6. lag' = [at |-> place, samples |-> taken, head |-> Probing!Unknown, attested |-> Probing!Unknown]
  BY <1>1, <1>2 DEF LagType
<1>7. lag' \in LagType /\ lag'.at = place /\ lag'.samples = taken
  BY <1>4, <1>5, <1>6 DEF LagType, Probing!Unknown
<1>8. ProbeTypes'
  BY <1>1, <1>7 DEF ProbeInv, ProbeTypes
<1>9. Len(lag.samples) < lagSamples
  BY <1>1, <1>2 DEF Sampling
<1>10. IF lag'.at = "done" THEN Len(lag'.samples) = lagSamples ELSE Len(lag'.samples) < lagSamples
  BY <1>4, <1>5, <1>7, <1>9, ProbeConstants
<1>11. Sampling'
  BY <1>1, <1>2, <1>5, <1>7, <1>10 DEF Sampling
<1>12. Answered'
  BY <1>1, <1>5, <1>7 DEF ProbeInv, Answered
<1>13. probe.grace = Probing!Unknown
  BY <1>1, <1>2 DEF Sampling
<1> QED BY <1>1, <1>8, <1>11, <1>12, <1>13, TimelyIfNone DEF ProbeInv

LEMMA StepSamplingFails == ASSUME ProbeInv, Probing!SamplingFails PROVE ProbeInv'
<1>1. /\ lag.at = "running" /\ lag' = [lag EXCEPT !.at = "failed"]
      /\ section' = [section EXCEPT !["lag"] = "failed"]
      /\ UNCHANGED <<head, attestedHeight, probe, deal>>
  BY DEF Probing!SamplingFails
<1>2. lag \in LagType /\ Sampling /\ section \in [Probing!Sections -> SectionStates]
  BY DEF ProbeInv, ProbeTypes
<1>3. lag' \in LagType /\ lag'.at = "failed" /\ lag'.samples = lag.samples
  BY <1>1, <1>2 DEF LagType
<1>4. /\ section' \in [Probing!Sections -> SectionStates] /\ section'["lag"] = "failed"
      /\ \A s \in Probing!Sections \ {"lag"} : section'[s] = section[s]
  BY <1>1, <1>2 DEF Probing!Sections, SectionStates
<1>5. ProbeTypes'
  BY <1>1, <1>3, <1>4 DEF ProbeInv, ProbeTypes
<1>6. probe.grace = Probing!Unknown /\ section["grace"] = "pending" /\ probe.at # "finished"
  BY <1>1, <1>2 DEF Sampling
<1>7. section'["grace"] = section["grace"]
  BY <1>4 DEF Probing!Sections
<1>8. Sampling'
  BY <1>1, <1>2, <1>3, <1>4, <1>6, <1>7 DEF Sampling
<1>9. \A s \in {"endpoints", "registry", "attestation", "verify", "gasSingle", "gasBatch", "emit", "decode"} :
         section'[s] = section[s]
  BY <1>4 DEF Probing!Sections
<1>10. Answered'
  BY <1>1, <1>3, <1>9 DEF ProbeInv, Answered
<1> QED BY <1>1, <1>5, <1>6, <1>8, <1>10, TimelyIfNone DEF ProbeInv

-----------------------------------------------------------------------------
(* main *)

\* While main is not finished there is no constant.
LEMMA NoneBefore == ASSUME Sampling, probe.at # "finished" PROVE probe.grace = Probing!Unknown
BY DEF Sampling

LEMMA StepConnect == ASSUME ProbeInv, Probing!Connect PROVE ProbeInv'
<1>1. probe.at \in {"endpoints", "registry"} /\ UNCHANGED <<head, attestedHeight, lag, deal>>
  BY DEF Probing!Connect
<1>2. probe \in ProbeType /\ section \in [Probing!Sections -> SectionStates] /\ Sampling /\ Answered /\ Timely
  BY DEF ProbeInv, ProbeTypes
<1>3. probe.grace = Probing!Unknown
  BY <1>1, <1>2, NoneBefore
<1>4. CASE Probing!Report({probe.at}, "done") /\ probe' = [probe EXCEPT !.at = Probing!After(@)]
  <2> DEFINE place == Probing!After(probe.at)
  <2>1. place = IF probe.at = "endpoints" THEN "registry" ELSE "attestation"
    BY <1>1, AfterIs
  <2>2. place \in ProbePlaces
    BY <2>1, PlacesAre
  <2>3. probe' = [probe EXCEPT !.at = place]
    BY <1>4
  <2> HIDE DEF place
  <2>4. /\ probe' \in ProbeType /\ probe'.at = place /\ probe'.grace = probe.grace
        /\ probe'.interval = probe.interval /\ probe'.catchup = probe.catchup /\ probe'.single = probe.single
    BY <1>2, <2>2, <2>3 DEF ProbeType
  <2>5. {probe.at} \in SUBSET Probing!Sections /\ "done" \in SectionStates
    BY <1>1 DEF Probing!Sections, SectionStates
  <2>6. /\ section' \in [Probing!Sections -> SectionStates]
        /\ \A s \in Probing!Sections : section'[s] = IF s \in {probe.at} THEN "done" ELSE section[s]
    BY <1>2, <1>4, <2>5, SectionsAre
  <2>7. ProbeTypes'
    BY <1>1, <2>4, <2>6 DEF ProbeInv, ProbeTypes
  <2>8. section'["lag"] = section["lag"] /\ section'["grace"] = section["grace"]
    BY <1>1, <2>6 DEF Probing!Sections
  <2>9. Sampling'
    BY <1>1, <1>2, <1>3, <2>1, <2>4, <2>8 DEF Sampling
  <2>10. /\ \A s \in {"attestation", "verify", "gasSingle", "gasBatch", "emit", "decode"} :
               section'[s] = section[s]
         /\ section'["endpoints"] = IF probe.at = "endpoints" THEN "done" ELSE section["endpoints"]
         /\ section'["registry"] = IF probe.at = "registry" THEN "done" ELSE section["registry"]
    BY <1>1, <2>6 DEF Probing!Sections
  <2>11. Answered'
    BY <1>1, <1>2, <2>1, <2>4, <2>10 DEF Answered
  <2> QED BY <1>1, <1>2, <1>3, <2>4, <2>7, <2>9, <2>11, TimelyIfNone DEF ProbeInv
<1>5. CASE /\ section' \in {section} \cup
                (IF Probing!At("registry") THEN {[section EXCEPT !["registry"] = "failed"]} ELSE {})
           /\ probe' = [probe EXCEPT !.at = "aborted"]
  <2>1. /\ probe' \in ProbeType /\ probe'.at = "aborted" /\ probe'.grace = probe.grace
        /\ probe'.interval = probe.interval /\ probe'.catchup = probe.catchup /\ probe'.single = probe.single
    BY <1>2, <1>5, PlacesAre DEF ProbeType
  <2>2. /\ section' \in [Probing!Sections -> SectionStates]
        /\ \A s \in Probing!Sections : s # "registry" => section'[s] = section[s]
    BY <1>2, <1>5 DEF Probing!Sections, SectionStates
  <2>3. ProbeTypes'
    BY <1>1, <2>1, <2>2 DEF ProbeInv, ProbeTypes
  <2>4. \A s \in {"lag", "grace", "attestation", "verify", "gasSingle", "gasBatch", "emit", "decode"} :
           section'[s] = section[s]
    BY <2>2 DEF Probing!Sections
  <2>5. Sampling'
    BY <1>1, <1>2, <1>3, <2>1, <2>4 DEF Sampling
  <2>6. Answered'
    BY <1>1, <1>2, <2>1, <2>4 DEF Answered
  <2> QED BY <1>1, <1>2, <1>3, <2>1, <2>3, <2>5, <2>6, TimelyIfNone DEF ProbeInv
<1> QED BY <1>4, <1>5 DEF Probing!Connect

\* The parameters are the network's where they were read.
LEMMA StepAttestation == ASSUME ProbeInv, Probing!Attestation PROVE ProbeInv'
<1>1. /\ probe.at = "attestation" /\ UNCHANGED <<head, attestedHeight, deal>>
      /\ lag' = [lag EXCEPT !.at = "running"]
  BY DEF Probing!Attestation, Probing!At
<1>2. /\ probe \in ProbeType /\ section \in [Probing!Sections -> SectionStates] /\ lag \in LagType
      /\ Sampling /\ Answered /\ Timely
      /\ probe.interval \in {Probing!Unknown, Interval} /\ probe.catchup \in {Probing!Unknown, MaxCatchup}
  BY DEF ProbeInv, ProbeTypes
<1>3. probe.grace = Probing!Unknown /\ lag.at = "off"
  BY <1>1, <1>2, NoneBefore DEF Sampling
<1>4. lag' \in LagType /\ lag'.at = "running" /\ lag'.samples = lag.samples
  BY <1>1, <1>2 DEF LagType
<1>5. /\ probe' \in ProbeType /\ probe'.at = "single" /\ probe'.grace = probe.grace
      /\ probe'.interval \in {Probing!Unknown, Interval} /\ probe'.catchup \in {Probing!Unknown, MaxCatchup}
      /\ probe'.single = probe.single
  <2> DEFINE place == Probing!After(probe.at)
  <2>1. place = "single" /\ place \in ProbePlaces
    BY <1>1, AfterIs, PlacesAre
  <2>2. \/ probe' = [probe EXCEPT !.at = place, !.interval = Interval, !.catchup = MaxCatchup]
        \/ probe' = [probe EXCEPT !.at = place]
    BY DEF Probing!Attestation
  <2> HIDE DEF place
  <2>3. CASE probe' = [probe EXCEPT !.at = place, !.interval = Interval, !.catchup = MaxCatchup]
    <3>1. probe' = [at |-> place, interval |-> Interval, catchup |-> MaxCatchup, single |-> probe.single,
                    confirmed |-> probe.confirmed, grace |-> probe.grace]
      BY <1>2, <2>3 DEF ProbeType
    <3>2. Interval \in Int /\ MaxCatchup \in Int
      BY ProbeConstants
    <3>3. probe' \in ProbeType
      BY <1>2, <2>1, <3>1, <3>2 DEF ProbeType
    <3> QED BY <2>1, <3>1, <3>3
  <2>4. CASE probe' = [probe EXCEPT !.at = place]
    BY <1>2, <2>1, <2>4 DEF ProbeType
  <2> QED BY <2>2, <2>3, <2>4
<1>6. \E state \in {"done", "failed"} : Probing!Report({"attestation"}, state)
  BY DEF Probing!Attestation
<1>7. PICK state \in {"done", "failed"} : Probing!Report({"attestation"}, state)
  BY <1>6
<1>8. {"attestation"} \in SUBSET Probing!Sections /\ state \in SectionStates
  BY DEF Probing!Sections, SectionStates
<1>9. /\ section' \in [Probing!Sections -> SectionStates]
      /\ \A s \in Probing!Sections : section'[s] = IF s \in {"attestation"} THEN state ELSE section[s]
  BY <1>2, <1>7, <1>8, SectionsAre
<1>10. /\ \A s \in Probing!Sections \ {"attestation"} : section'[s] = section[s]
       /\ section'["attestation"] # "pending"
  BY <1>9 DEF Probing!Sections
<1>11. ProbeTypes'
  BY <1>1, <1>4, <1>5, <1>9 DEF ProbeInv, ProbeTypes
<1>12. \A s \in {"lag", "grace", "endpoints", "registry", "verify", "gasSingle", "gasBatch", "emit", "decode"} :
          section'[s] = section[s]
  BY <1>10 DEF Probing!Sections
<1>13. Sampling'
  BY <1>1, <1>2, <1>3, <1>4, <1>5, <1>12 DEF Sampling
<1>14. Answered'
  BY <1>1, <1>2, <1>4, <1>5, <1>10, <1>12 DEF Answered
<1> QED BY <1>1, <1>2, <1>3, <1>5, <1>11, <1>13, <1>14, TimelyIfNone DEF ProbeInv

\* A section of main that answers sections other than the sampling's.
LEMMA SamplingOfMain ==
  ASSUME Sampling, lag' = lag, probe.at \in {"single", "batch", "emit", "decode"},
         probe'.at \in {"batch", "emit", "decode", "grace"}, probe'.grace = probe.grace,
         section'["lag"] = section["lag"], section'["grace"] = section["grace"]
  PROVE  Sampling'
<1>1. probe.grace = Probing!Unknown
  BY NoneBefore
<1> QED BY <1>1 DEF Sampling

LEMMA StepSingle == ASSUME ProbeInv, Probing!Single PROVE ProbeInv'
<1>1. probe.at = "single" /\ UNCHANGED <<head, attestedHeight, lag, deal>>
  BY DEF Probing!Single, Probing!At
<1>2. /\ probe \in ProbeType /\ section \in [Probing!Sections -> SectionStates] /\ Sampling /\ Answered /\ Timely
      /\ probe.interval \in {Probing!Unknown, Interval} /\ probe.catchup \in {Probing!Unknown, MaxCatchup}
  BY DEF ProbeInv, ProbeTypes
<1>3. probe.grace = Probing!Unknown
  BY <1>1, <1>2, NoneBefore
<1> DEFINE place == Probing!After(probe.at)
<1>4. place = "batch" /\ place \in ProbePlaces
  BY <1>1, AfterIs, PlacesAre
<1>5. /\ probe' \in ProbeType /\ probe'.at = "batch" /\ probe'.grace = probe.grace
      /\ probe'.interval = probe.interval /\ probe'.catchup = probe.catchup
      /\ section' \in [Probing!Sections -> SectionStates]
      /\ \A s \in Probing!Sections \ {"verify", "gasSingle"} : section'[s] = section[s]
      /\ section'["verify"] # "pending" /\ section'["gasSingle"] # "pending"
      /\ probe'.single = "measured" => section'["verify"] = "done"
      /\ probe'.single # "none" => section'["gasSingle"] = "done"
  <2>1. CASE \E best \in Probing!Verified :
             /\ probe' = [probe EXCEPT !.at = place, !.single = best]
             /\ section' = [section EXCEPT
                  !["gasSingle"] = "done",
                  !["verify"] = IF best = "proven" THEN "failed" ELSE "done"]
    <3>1. PICK best \in Probing!Verified :
             /\ probe' = [probe EXCEPT !.at = place, !.single = best]
             /\ section' = [section EXCEPT
                  !["gasSingle"] = "done",
                  !["verify"] = IF best = "proven" THEN "failed" ELSE "done"]
      BY <2>1
    <3>2. best \in {"measured", "verified", "proven"}
      BY DEF Probing!Verified
    <3>3. probe' = [at |-> place, interval |-> probe.interval, catchup |-> probe.catchup, single |-> best,
                    confirmed |-> probe.confirmed, grace |-> probe.grace]
      <4> HIDE DEF place
      <4> QED BY <1>2, <3>1 DEF ProbeType
    <3>4. probe' \in ProbeType
      <4> HIDE DEF place
      <4> QED BY <1>2, <1>4, <3>2, <3>3 DEF ProbeType
    <3>5. /\ section' \in [Probing!Sections -> SectionStates]
          /\ \A s \in Probing!Sections \ {"verify", "gasSingle"} : section'[s] = section[s]
          /\ section'["gasSingle"] = "done"
          /\ section'["verify"] = IF best = "proven" THEN "failed" ELSE "done"
      BY <1>2, <3>1 DEF Probing!Sections, SectionStates
    <3> QED BY <1>4, <3>2, <3>3, <3>4, <3>5
  <2>2. CASE Probing!Report({"verify", "gasSingle"}, "failed") /\ probe' = [probe EXCEPT !.at = place]
    <3>1. /\ probe' \in ProbeType /\ probe'.at = place /\ probe'.grace = probe.grace
          /\ probe'.interval = probe.interval /\ probe'.catchup = probe.catchup
          /\ probe'.single = probe.single
      <4> HIDE DEF place
      <4> QED BY <1>2, <1>4, <2>2 DEF ProbeType
    <3>2. {"verify", "gasSingle"} \in SUBSET Probing!Sections /\ "failed" \in SectionStates
      BY DEF Probing!Sections, SectionStates
    <3>3. /\ section' \in [Probing!Sections -> SectionStates]
          /\ \A s \in Probing!Sections : section'[s] = IF s \in {"verify", "gasSingle"} THEN "failed" ELSE section[s]
      BY <1>2, <2>2, <3>2, SectionsAre
    <3>4. section'["verify"] = "failed" /\ section'["gasSingle"] = "failed"
      BY <3>3 DEF Probing!Sections
    <3>5. probe.single = "none"
      BY <1>1, <1>2 DEF Answered
    <3> QED BY <1>4, <3>1, <3>3, <3>4, <3>5
  <2> QED BY <2>1, <2>2 DEF Probing!Single
<1>6. ProbeTypes'
  BY <1>1, <1>2, <1>5 DEF ProbeInv, ProbeTypes
<1>7. \A s \in {"lag", "grace", "endpoints", "registry", "attestation", "gasBatch", "emit", "decode"} :
          section'[s] = section[s]
  BY <1>5 DEF Probing!Sections
<1>8. Sampling'
  BY <1>1, <1>2, <1>5, <1>7, SamplingOfMain
<1>9. Answered'
  BY <1>1, <1>2, <1>5, <1>7 DEF Answered
<1> QED BY <1>1, <1>2, <1>3, <1>5, <1>6, <1>8, <1>9, TimelyIfNone DEF ProbeInv

LEMMA StepBatch == ASSUME ProbeInv, Probing!Batch PROVE ProbeInv'
<1>1. probe.at = "batch" /\ UNCHANGED <<head, attestedHeight, lag, deal>>
  BY DEF Probing!Batch, Probing!At
<1>2. /\ probe \in ProbeType /\ section \in [Probing!Sections -> SectionStates] /\ Sampling /\ Answered /\ Timely
      /\ probe.interval \in {Probing!Unknown, Interval} /\ probe.catchup \in {Probing!Unknown, MaxCatchup}
  BY DEF ProbeInv, ProbeTypes
<1>3. probe.grace = Probing!Unknown
  BY <1>1, <1>2, NoneBefore
<1> DEFINE place == Probing!After(probe.at)
<1>4. place = "emit" /\ place \in ProbePlaces
  BY <1>1, AfterIs, PlacesAre
<1>5. /\ probe' \in ProbeType /\ probe'.at = "emit" /\ probe'.grace = probe.grace
      /\ probe'.interval = probe.interval /\ probe'.catchup = probe.catchup
      /\ probe'.single = probe.single
  <2>1. CASE \E failed \in Probing!Rejected :
               probe' = [probe EXCEPT !.at = place, !.confirmed = Probing!Confirmed(failed)]
    <3>1. PICK failed \in Probing!Rejected :
               probe' = [probe EXCEPT !.at = place, !.confirmed = Probing!Confirmed(failed)]
      BY <2>1
    <3>2. Probing!Confirmed(failed) \in BOOLEAN
      <4>1. failed \in BOOLEAN
        BY DEF Probing!Rejected
      <4> QED BY <4>1, Zenon DEF Probing!Confirmed
    <3> DEFINE c == Probing!Confirmed(failed)
    <3>3. c \in BOOLEAN /\ probe' = [probe EXCEPT !.at = place, !.confirmed = c]
      BY <3>1, <3>2
    <3> HIDE DEF place, c
    <3>4. probe' = [at |-> place, interval |-> probe.interval, catchup |-> probe.catchup, single |-> probe.single,
                    confirmed |-> c, grace |-> probe.grace]
      BY <1>2, <3>3 DEF ProbeType
    <3>5. probe' \in ProbeType
      BY <1>2, <1>4, <3>3, <3>4 DEF ProbeType
    <3> QED BY <1>4, <3>4, <3>5
  <2>2. CASE probe' = [probe EXCEPT !.at = place]
    <3> HIDE DEF place
    <3> QED BY <1>2, <1>4, <2>2 DEF ProbeType
  <2> QED BY <2>1, <2>2 DEF Probing!Batch
<1>6. \E state \in {"done", "failed"} : Probing!Report({"gasBatch"}, state)
  BY DEF Probing!Batch
<1>7. PICK state \in {"done", "failed"} : Probing!Report({"gasBatch"}, state)
  BY <1>6
<1>8. {"gasBatch"} \in SUBSET Probing!Sections /\ state \in SectionStates
  BY DEF Probing!Sections, SectionStates
<1>9. /\ section' \in [Probing!Sections -> SectionStates]
      /\ \A s \in Probing!Sections : section'[s] = IF s \in {"gasBatch"} THEN state ELSE section[s]
  BY <1>2, <1>7, <1>8, SectionsAre
<1>10. ProbeTypes'
  BY <1>1, <1>2, <1>5, <1>9 DEF ProbeInv, ProbeTypes
<1>11. /\ \A s \in {"lag", "grace", "endpoints", "registry", "attestation", "verify", "gasSingle", "emit", "decode"} :
            section'[s] = section[s]
       /\ section'["gasBatch"] # "pending"
  BY <1>9 DEF Probing!Sections
<1>12. Sampling'
  BY <1>1, <1>2, <1>5, <1>11, SamplingOfMain
<1>13. Answered'
  BY <1>1, <1>2, <1>5, <1>11 DEF Answered
<1> QED BY <1>1, <1>2, <1>3, <1>5, <1>10, <1>12, <1>13, TimelyIfNone DEF ProbeInv

\* A section on a proven transaction is done only if there was what it needs.
LEMMA StepOnSample == ASSUME ProbeInv, NEW id \in {"emit", "decode"}, Probing!OnSample(id) PROVE ProbeInv'
<1>1. probe.at = id /\ UNCHANGED <<head, attestedHeight, lag, deal>>
  BY DEF Probing!OnSample, Probing!At
<1>2. /\ probe \in ProbeType /\ section \in [Probing!Sections -> SectionStates] /\ Sampling /\ Answered /\ Timely
      /\ probe.interval \in {Probing!Unknown, Interval} /\ probe.catchup \in {Probing!Unknown, MaxCatchup}
  BY DEF ProbeInv, ProbeTypes
<1>3. probe.grace = Probing!Unknown
  BY <1>1, <1>2, NoneBefore
<1> DEFINE place == Probing!After(probe.at)
<1>4. place = (IF id = "emit" THEN "decode" ELSE "grace") /\ place \in ProbePlaces
  BY <1>1, AfterIs, PlacesAre
<1>5. /\ probe' \in ProbeType /\ probe'.at = place /\ probe'.grace = probe.grace
      /\ probe'.interval = probe.interval /\ probe'.catchup = probe.catchup
      /\ probe'.single = probe.single
  <2>1. probe' = [probe EXCEPT !.at = place]
    BY DEF Probing!OnSample
  <2> HIDE DEF place
  <2> QED BY <1>2, <1>4, <2>1 DEF ProbeType
<1>6. \E state \in {"done", "failed"} : Probing!Report({id}, state) /\ (state = "done" => Probing!Measured(id))
  BY DEF Probing!OnSample
<1>7. PICK state \in {"done", "failed"} : Probing!Report({id}, state) /\ (state = "done" => Probing!Measured(id))
  BY <1>6
<1>8. {id} \in SUBSET Probing!Sections /\ state \in SectionStates
  BY DEF Probing!Sections, SectionStates
<1>9. /\ section' \in [Probing!Sections -> SectionStates]
      /\ \A s \in Probing!Sections : section'[s] = IF s \in {id} THEN state ELSE section[s]
  BY <1>2, <1>7, <1>8, SectionsAre
<1>10. ProbeTypes'
  BY <1>1, <1>2, <1>5, <1>9 DEF ProbeInv, ProbeTypes
<1>11. /\ \A s \in {"lag", "grace", "endpoints", "registry", "attestation", "verify", "gasSingle", "gasBatch"} :
            section'[s] = section[s]
       /\ section'["emit"] = IF id = "emit" THEN state ELSE section["emit"]
       /\ section'["decode"] = IF id = "decode" THEN state ELSE section["decode"]
  BY <1>9 DEF Probing!Sections
<1> HIDE DEF place
<1>12. Sampling'
  <2>1. probe.at \in {"single", "batch", "emit", "decode"} /\ probe'.at \in {"batch", "emit", "decode", "grace"}
    BY <1>1, <1>4, <1>5
  <2> QED BY <1>1, <1>2, <1>5, <1>11, <2>1, SamplingOfMain
<1>13. Answered'
  <2>1. CASE id = "emit"
    BY <1>1, <1>2, <1>4, <1>5, <1>7, <1>11, <2>1 DEF Answered, Probing!Measured
  <2>2. CASE id = "decode"
    BY <1>1, <1>2, <1>4, <1>5, <1>7, <1>11, <2>2 DEF Answered, Probing!Measured
  <2> QED BY <2>1, <2>2
<1> QED BY <1>1, <1>2, <1>3, <1>5, <1>10, <1>12, <1>13, TimelyIfNone DEF ProbeInv

-----------------------------------------------------------------------------
\* A finite set of integers has a greatest.
LEMMA MaxIsInt ==
  ASSUME NEW S, IsFiniteSet(S), S # {}, \A x \in S : x \in Int
  PROVE  Probing!Max(S) \in Int
<1> DEFINE K == {s \in SUBSET S : s = {} \/ \E x \in s : \A y \in s : x >= y}
<1>1. {} \in K
  OBVIOUS
<1>2. ASSUME NEW s \in SUBSET S, NEW x \in S, s \in K, x \notin s PROVE s \cup {x} \in K
  <2>1. CASE s = {}
    <3>1. x \in s \cup {x} /\ (\A y \in s \cup {x} : y = x) /\ x >= x
      BY <2>1
    <3> QED BY <3>1
  <2>2. CASE \E z \in s : \A y \in s : z >= y
    <3>1. PICK z \in s : \A y \in s : z >= y
      BY <2>2
    <3>2. CASE z >= x
      BY <3>1, <3>2
    <3>3. CASE ~ (z >= x)
      <4>1. x >= z /\ x >= x /\ z \in Int /\ x \in Int
        BY <3>3
      <4>2. \A y \in s : x >= y
        BY <3>1, <4>1
      <4>3. \A y \in s \cup {x} : x >= y
        BY <4>1, <4>2
      <4> QED BY <4>3
    <3> QED BY <3>2, <3>3
  <2> QED BY <1>2, <2>1, <2>2
<1> HIDE DEF K
<1>3. S \in K
  BY <1>1, <1>2, FiniteInduction
<1>4. \E x \in S : \A y \in S : x >= y
  BY <1>3 DEF K
<1>5. Probing!Max(S) \in S
  BY <1>4 DEF Probing!Max
<1> QED BY <1>5

\* Samples give a lag.
LEMMA LagIsInt ==
  ASSUME lag.samples \in Seq(SampleType), Len(lag.samples) # 0
  PROVE  Probing!MaxLag \in Int
<1> DEFINE S == ToSet(lag.samples)
           D == [s \in S |-> s.head - s.attested]
           T == {D[s] : s \in S}
           I == {lag.samples[k] : k \in DOMAIN lag.samples}
           J == {s.head - s.attested : s \in I}
<1>1. S = I
  BY DEF ToSet
<1>2. \A s \in S : s \in SampleType
  BY <1>1
<1>3. T = J
  BY <1>1
<1>4. \A x \in T : x \in Int
  BY <1>2 DEF SampleType
<1>5. lag.samples[1] \in S /\ T # {}
  <2>1. 1 \in DOMAIN lag.samples
    OBVIOUS
  <2> QED BY <1>1, <2>1
<1>6. IsFiniteSet(S)
  BY FiniteSequence
<1>7. IsFiniteSet(T)
  <2> HIDE DEF S, D
  <2> QED BY <1>6, FiniteImage
<1>8. Probing!Max(T) \in Int
  <2> HIDE DEF T
  <2> QED BY <1>4, <1>5, <1>7, MaxIsInt
<1>9. Probing!MaxLag = Probing!Max(J)
  BY DEF Probing!MaxLag
<1>10. Probing!Max(T) = Probing!Max(J)
  BY <1>3, Zenon
<1> QED BY <1>8, <1>9, <1>10

\* Rounding to hours of blocks never rounds down, and never to nothing.
LEMMA RoundedUp ==
  ASSUME NEW n \in Int
  PROVE  Probing!Rounded(n) \in Int /\ Probing!Rounded(n) >= n /\ Probing!Rounded(n) >= 1
<1> DEFINE b == BlocksPerHour
           m == n + b - 1
           q == m \div b
           p == q * b
<1>1. b \in Nat /\ b >= 1 /\ m \in Int
  BY ProbeConstants
<1>2. q \in Int /\ q * b <= m /\ m < q * b + b
  <2>1. q \in Int /\ b * q <= m /\ m < b * q + b
    <3> HIDE DEF m, b
    <3> QED BY <1>1
  <2>2. b * q = q * b
    <3> HIDE DEF q, b
    <3> QED BY <1>1, <2>1
  <2> QED BY <2>1, <2>2
<1>3. p \in Int /\ p <= m /\ m < p + b
  <2>1. p \in Int
    <3> HIDE DEF q, b
    <3> QED BY <1>1, <1>2
  <2> QED BY <1>2, <2>1
<1>4. Probing!Rounded(n) = Probing!Greater(b, p)
  BY DEF Probing!Rounded
<1>5. p >= n
  <2> HIDE DEF p
  <2> QED BY <1>1, <1>3
<1>6. Probing!Rounded(n) = IF b > p THEN b ELSE p
  BY <1>4 DEF Probing!Greater
<1> HIDE DEF p, q, m, b
<1> QED BY <1>1, <1>3, <1>5, <1>6

\* The grace period derived at the end covers a leap, the lag seen and the allowance.
LEMMA StepGrace == ASSUME ProbeInv, Probing!Grace PROVE ProbeInv'
<1>1. probe.at = "grace" /\ lag.at \in {"done", "failed"} /\ UNCHANGED <<head, attestedHeight, lag, deal>>
  BY DEF Probing!Grace, Probing!At
<1>2. /\ probe \in ProbeType /\ section \in [Probing!Sections -> SectionStates] /\ Sampling /\ Answered /\ Timely
      /\ probe.interval \in {Probing!Unknown, Interval} /\ probe.catchup \in {Probing!Unknown, MaxCatchup}
      /\ lag \in LagType
  BY DEF ProbeInv, ProbeTypes
<1>3. probe.grace = Probing!Unknown
  BY <1>1, <1>2, NoneBefore
<1> DEFINE place == Probing!After(probe.at)
           interval == Probing!Known(probe.interval, DefaultInterval)
           catchup == Probing!Known(probe.catchup, DefaultCatchup)
           period == Probing!deriveGracePeriod(Probing!MaxLag, interval, catchup)
<1>4. place = "finished" /\ place \in ProbePlaces
  BY <1>1, AfterIs, PlacesAre
<1>5. CASE lag.at = "done"
  <2>1. probe' = [probe EXCEPT !.at = place, !.grace = period] /\ Probing!Report({"lag", "grace"}, "done")
    BY <1>5 DEF Probing!Grace
  <2>2. Probing!MaxLag \in Int
    <3>1. lag.samples \in Seq(SampleType) /\ Len(lag.samples) # 0
      BY <1>2, <1>5, ProbeConstants DEF Sampling, LagType
    <3> QED BY <3>1, LagIsInt
  <2>3. interval \in Nat /\ catchup \in Nat
    BY <1>2, ProbeConstants DEF Probing!Known, Probing!Unknown
  <2>4. period \in Int /\ period >= 1 /\ period >= catchup + Probing!MaxLag + SUBMISSION_ALLOWANCE_BLOCKS
    <3> DEFINE sum == catchup + Probing!MaxLag + interval + SUBMISSION_ALLOWANCE_BLOCKS
    <3>1. period = Probing!Rounded(sum)
      BY DEF Probing!deriveGracePeriod
    <3> HIDE DEF interval, catchup, period
    <3>2. sum \in Int /\ sum >= catchup + Probing!MaxLag + SUBMISSION_ALLOWANCE_BLOCKS
      BY <2>2, <2>3, ProbeConstants
    <3>3. catchup + Probing!MaxLag + SUBMISSION_ALLOWANCE_BLOCKS \in Int
      BY <2>2, <2>3, ProbeConstants
    <3> HIDE DEF sum
    <3>4. Probing!Rounded(sum) \in Int /\ Probing!Rounded(sum) >= sum /\ Probing!Rounded(sum) >= 1
      BY <3>2, RoundedUp
    <3> DEFINE need == catchup + Probing!MaxLag + SUBMISSION_ALLOWANCE_BLOCKS
    <3>5. need \in Int /\ sum >= need
      BY <3>2, <3>3
    <3> HIDE DEF need
    <3>6. period >= need
      BY <3>1, <3>2, <3>4, <3>5
    <3> QED BY <3>1, <3>4, <3>6 DEF need
  <2>5. /\ probe' \in ProbeType /\ probe'.at = "finished" /\ probe'.grace = period
        /\ probe'.interval = probe.interval /\ probe'.catchup = probe.catchup
        /\ probe'.single = probe.single
    <3> HIDE DEF place, period
    <3>1. probe' = [at |-> place, interval |-> probe.interval, catchup |-> probe.catchup, single |-> probe.single,
                    confirmed |-> probe.confirmed, grace |-> period]
      BY <1>2, <2>1 DEF ProbeType
    <3>2. probe' \in ProbeType
      BY <1>2, <1>4, <2>4, <3>1 DEF ProbeType
    <3> QED BY <1>4, <3>1, <3>2
  <2>6. {"lag", "grace"} \in SUBSET Probing!Sections /\ "done" \in SectionStates
    BY DEF Probing!Sections, SectionStates
  <2>7. /\ section' \in [Probing!Sections -> SectionStates]
        /\ \A s \in Probing!Sections : section'[s] = IF s \in {"lag", "grace"} THEN "done" ELSE section[s]
    BY <1>2, <2>1, <2>6, SectionsAre
  <2>8. /\ section'["lag"] = "done" /\ section'["grace"] = "done"
        /\ \A s \in {"endpoints", "registry", "attestation", "verify", "gasSingle", "gasBatch", "emit", "decode"} :
              section'[s] = section[s]
    BY <2>7 DEF Probing!Sections
  <2>9. ProbeTypes'
    BY <1>1, <1>2, <2>5, <2>7 DEF ProbeInv, ProbeTypes
  <2>10. Sampling'
    BY <1>1, <1>2, <1>5, <2>5, <2>8 DEF Sampling
  <2>11. Answered'
    BY <1>1, <1>2, <2>5, <2>8 DEF Answered
  <2>12. deal.due = Probing!Unknown /\ deal.paid = Probing!Unknown /\ deal.seen = Probing!Unknown
    BY <1>2, <1>3 DEF Timely
  <2>13. Probing!MaxLag' = Probing!MaxLag /\ Probing!Known(probe.catchup, DefaultCatchup)' = catchup
    BY <1>1, <2>5 DEF Probing!MaxLag, Probing!Known
  <2>14. Timely'
    <3> HIDE DEF period, catchup
    <3>1. /\ Probing!MaxLag' \in Int /\ probe'.grace >= 1
          /\ probe'.grace >= Probing!Known(probe.catchup, DefaultCatchup)' + Probing!MaxLag' + SUBMISSION_ALLOWANCE_BLOCKS
      BY <2>2, <2>4, <2>5, <2>13
    <3>2. deal'.due = Probing!Unknown /\ deal'.paid = Probing!Unknown /\ deal'.seen = Probing!Unknown
      BY <1>1, <2>12
    <3> QED BY <3>1, <3>2 DEF Timely
  <2> QED BY <2>9, <2>10, <2>11, <2>14 DEF ProbeInv
<1>6. CASE lag.at # "done"
  <2>1. probe' = [probe EXCEPT !.at = place] /\ UNCHANGED section
    BY <1>6 DEF Probing!Grace
  <2>2. /\ probe' \in ProbeType /\ probe'.at = "finished" /\ probe'.grace = probe.grace
        /\ probe'.interval = probe.interval /\ probe'.catchup = probe.catchup
        /\ probe'.single = probe.single
    <3> HIDE DEF place
    <3> QED BY <1>2, <1>4, <2>1 DEF ProbeType
  <2>3. ProbeTypes'
    BY <1>1, <1>2, <2>1, <2>2 DEF ProbeInv, ProbeTypes
  <2>4. Sampling'
    BY <1>1, <1>2, <1>3, <1>6, <2>1, <2>2 DEF Sampling
  <2>5. Answered'
    BY <1>1, <1>2, <2>1, <2>2 DEF Answered
  <2> QED BY <1>1, <1>2, <1>3, <2>2, <2>3, <2>4, <2>5, TimelyIfNone DEF ProbeInv
<1> QED BY <1>5, <1>6

-----------------------------------------------------------------------------
LEMMA ProbeInit == Probing!Init => ProbeInv
<1> SUFFICES ASSUME Probing!Init PROVE ProbeInv
  OBVIOUS
<1>1. /\ head = Interval /\ attestedHeight = Interval
      /\ section = [s \in Probing!Sections |-> "pending"]
      /\ probe = [at |-> "endpoints", interval |-> Probing!Unknown, catchup |-> Probing!Unknown, single |-> "none",
                  confirmed |-> FALSE, grace |-> Probing!Unknown]
      /\ deal = [due |-> Probing!Unknown, paid |-> Probing!Unknown, seen |-> Probing!Unknown, applied |-> FALSE]
  BY DEF Probing!Init
<1>2. PICK none : none = <<>>
  OBVIOUS
<1>3. lag = [at |-> "off", samples |-> none, head |-> Probing!Unknown, attested |-> Probing!Unknown]
  BY <1>2 DEF Probing!Init
<1>4. none \in Seq(SampleType) /\ Len(none) = 0
  BY <1>2
<1>5. Probing!Unknown \in Int
  BY DEF Probing!Unknown
<1>6. Interval \in Nat /\ lagSamples \in Nat \ {0}
  BY ProbeConstants
<1>7. "endpoints" \in ProbePlaces
  BY PlacesAre
<1>8. probe \in ProbeType
  BY <1>1, <1>5, <1>7 DEF ProbeType
<1>9. lag \in LagType
  BY <1>3, <1>4, <1>5 DEF LagType
<1>10. deal \in DealType
  BY <1>1, <1>5 DEF DealType
<1>11. section \in [Probing!Sections -> SectionStates] /\ \A s \in Probing!Sections : section[s] = "pending"
  BY <1>1 DEF SectionStates
<1>12. ProbeTypes
  BY <1>1, <1>6, <1>8, <1>9, <1>10, <1>11 DEF ProbeTypes
<1>13. /\ section["lag"] = "pending" /\ section["grace"] = "pending" /\ section["emit"] = "pending"
       /\ section["decode"] = "pending"
  BY <1>11 DEF Probing!Sections
<1>14. Sampling
  BY <1>1, <1>3, <1>4, <1>6, <1>13 DEF Sampling
<1>15. Answered
  BY <1>1, <1>3, <1>13 DEF Answered
<1>16. Timely
  BY <1>1 DEF Timely
<1> QED BY <1>12, <1>14, <1>15, <1>16 DEF ProbeInv

LEMMA ProbeNext == ProbeInv /\ Probing!Next => ProbeInv'
<1> SUFFICES ASSUME ProbeInv, Probing!Next PROVE ProbeInv'
  OBVIOUS
<1>1. CASE Probing!SourceBlock
  BY <1>1, StepSourceBlock
<1>2. CASE Probing!Attest
  BY <1>2, StepAttest
<1>3. CASE Probing!AskAttested
  BY <1>3, StepAskAttested
<1>4. CASE Probing!AskHead
  BY <1>4, StepAskHead
<1>5. CASE Probing!Sample
  BY <1>5, StepSample
<1>6. CASE Probing!SamplingFails
  BY <1>6, StepSamplingFails
<1>7. CASE Probing!Connect
  BY <1>7, StepConnect
<1>8. CASE Probing!Attestation
  BY <1>8, StepAttestation
<1>9. CASE Probing!Single
  BY <1>9, StepSingle
<1>10. CASE Probing!Batch
  BY <1>10, StepBatch
<1>11. CASE Probing!Grace
  BY <1>11, StepGrace
<1>12. CASE \E id \in {"emit", "decode"} : Probing!OnSample(id)
  BY <1>12, StepOnSample
<1>13. CASE Probing!Create
  BY <1>13, StepCreate
<1>14. CASE Probing!Pay
  BY <1>14, StepPay
<1>15. CASE Probing!Apply
  BY <1>15, StepApply
<1> QED BY <1>1, <1>2, <1>3, <1>4, <1>5, <1>6, <1>7, <1>8, <1>9, <1>10, <1>11, <1>12, <1>13, <1>14, <1>15
        DEF Probing!Next

\* With the network's leap in the constant, its end comes after every payment it waits for.
LEMMA NoDefaultIsFabricated == ASSUME ProbeInv PROVE Probing!NoFabricatedDefault
<1> DEFINE catchup == Probing!Known(probe.catchup, DefaultCatchup)
<1> SUFFICES ASSUME deal.paid # Probing!Unknown, catchup >= MaxCatchup, attestedHeight > deal.due + probe.grace,
                    ~deal.applied
             PROVE  FALSE
  BY DEF Probing!NoFabricatedDefault
<1>1. /\ head \in Nat /\ attestedHeight \in Nat /\ attestedHeight <= head /\ deal \in DealType /\ probe \in ProbeType
      /\ Timely
  BY DEF ProbeInv, ProbeTypes
<1>2. /\ deal.due \in Int /\ deal.paid \in Int /\ deal.seen \in Int /\ probe.grace \in Int
  BY <1>1 DEF DealType, ProbeType
<1>3. deal.paid >= 0 /\ deal.paid <= deal.due /\ deal.paid <= head /\ probe.grace # Probing!Unknown
  BY <1>1 DEF Timely
<1>4. Probing!MaxLag \in Int /\ probe.grace >= 1 /\ probe.grace >= catchup + Probing!MaxLag + SUBMISSION_ALLOWANCE_BLOCKS
  BY <1>1, <1>3 DEF Timely
<1>5. SUBMISSION_ALLOWANCE_BLOCKS \in Nat /\ MaxCatchup \in Nat /\ catchup \in Int
  <2>1. probe.catchup \in Int
    BY <1>1 DEF ProbeType
  <2> QED BY <2>1, ProbeConstants DEF Probing!Known
<1>6. deal.seen # Probing!Unknown
  BY <1>1, <1>2, <1>3, <1>4 DEF Timely
<1>7. /\ head <= deal.seen + SUBMISSION_ALLOWANCE_BLOCKS
      /\ deal.seen = deal.paid \/ (Leap >= 1 /\ deal.seen <= deal.paid + Leap - 1)
      /\ head = deal.paid \/ Leap >= 1
  BY <1>1, <1>6 DEF Timely
<1>8. Leap = Probing!MaxLag + MaxCatchup /\ Leap \in Int
  BY <1>4, <1>5 DEF Leap
<1> HIDE DEF catchup
<1>9. probe.grace >= Leap + SUBMISSION_ALLOWANCE_BLOCKS
  BY <1>2, <1>4, <1>5, <1>8
<1>10. head # deal.paid
  BY <1>1, <1>2, <1>3, <1>4
<1>11. deal.seen <= deal.paid + Leap
  BY <1>2, <1>7, <1>8, <1>10
<1> QED BY <1>1, <1>2, <1>3, <1>5, <1>7, <1>8, <1>9, <1>11

LEMMA ProbeInvImplies == ProbeInv => Probing!ReportIsSound
<1> SUFFICES ASSUME ProbeInv PROVE Probing!ReportIsSound
  OBVIOUS
<1>1. ProbeTypes /\ Sampling /\ Answered
  BY DEF ProbeInv
<1>2. Len(lag.samples) \in Nat /\ lagSamples \in Nat
  BY <1>1, ProbeConstants DEF ProbeTypes, LagType
<1>3. lag.at = "done" <=> Len(lag.samples) = lagSamples
  BY <1>1, <1>2 DEF Sampling
<1>4. Probing!ProbeTypeOK
  BY <1>1, <1>3 DEF ProbeTypes, Sampling, Probing!ProbeTypeOK, Probing!At, SectionStates
<1>5. Probing!ReportIsWhole
  <2> SUFFICES ASSUME Probing!At("finished") PROVE
        /\ \A s \in Probing!Sections \ {"grace"} : section[s] # "pending"
        /\ section["grace"] = IF section["lag"] = "done" THEN "done" ELSE "pending"
        /\ section["emit"] = "done" => section["verify"] = "done"
        /\ section["decode"] = "done" => section["gasSingle"] = "done"
    BY DEF Probing!ReportIsWhole
  <2>1. probe.at = "finished"
    BY DEF Probing!At
  <2>2. lag.at \in {"done", "failed"} /\ section["lag"] \in {"done", "failed"}
    BY <1>1, <2>1 DEF Sampling
  <2>3. \A s \in Probing!Sections \ {"grace"} : section[s] # "pending"
    BY <1>1, <2>1, <2>2 DEF Answered, Probing!Sections
  <2> QED BY <1>1, <2>3 DEF Sampling, Answered
<1> QED BY <1>4, <1>5, NoDefaultIsFabricated DEF Probing!ReportIsSound

-----------------------------------------------------------------------------
(***************************************************************************)
(* The gate capture and the check of its fixtures.                         *)
(* A clean run, one that began with nothing of an earlier run on its way,  *)
(* keeps an account: Standing(m) gives the balances after m of its three   *)
(* payments and what may be on its way. The payment it is at is covered,   *)
(* whatever was crashed or lost before, and a run that stopped is told by  *)
(* its balances.                                                           *)
(***************************************************************************)

Holders == {"A", "B", "H"}
Steps == {Gate!Step(name, n) : name \in Gate!Sends, n \in Nat}
Payments == {Gate!Step(kind, n) : kind \in Gate!Range(Gate!Kinds), n \in Nat}
Results == {"none", "running", "done", "unpaid", "failed", "lost", "waited", "crash"}
RunType == [number : Nat, next : 0..15, sent : BOOLEAN, result : Results,
            origin : [Holders -> Nat], clean : BOOLEAN, moved : BOOLEAN]
CheckType == [left : SUBSET Gate!Range(Gate!Kinds), failures : Nat, before : SUBSET Payments,
              result : {"none", "running", "passed", "failed", "crash"}]

\* What lies at the helper stays there, for a payment through it takes in what it gives.
\* Nothing is recorded that was not attested, nothing kept in a file that was not
\* attested when the run waited, and no transaction is of a run to come.
Shape ==
    /\ usdc \in [Holders -> Nat] /\ usdc["H"] = run.origin["H"]
    /\ allowance \in [Holders -> Nat]
    /\ helper \in [deployed : Nat, known : Nat] /\ helper.known <= helper.deployed
    /\ pool \subseteq Steps /\ \A x \in pool : x.run <= run.number
    /\ events \subseteq Payments /\ \A e \in events : e.run <= run.number
    /\ attested \subseteq events /\ recorded \subseteq attested /\ index \subseteq attested
    /\ files \in [Gate!Range(Gate!Kinds) -> attested \cup {Gate!NoFile}]
    /\ run \in RunType
    /\ run.next >= 12 => Gate!Captured \subseteq attested
    /\ check \in CheckType

\* What a run of verify-live has recorded, as long as nothing failed.
Checking ==
    check.left # {} =>
        /\ run.next = 0 /\ check.result = "running" /\ check.before \subseteq recorded
        /\ \A kind \in check.left : files[kind] # Gate!NoFile
        /\ check.failures = 0 =>
              \A kind \in Gate!Range(Gate!Kinds) \ check.left :
                 files[kind] # Gate!NoFile => files[kind] \in recorded \ check.before

\* The account of a clean run: how many of its payments are made, and what is on its way.
Own == {e \in events : e.run = run.number}
FirstPaid(m) == {Gate!Step(Gate!Kinds[k], run.number) : k \in 1..m}
InA(m) == run.origin["A"] - (IF m >= 1 THEN FUNDING ELSE 0) + (IF m >= 2 THEN FACE_VALUE ELSE 0)
                          - (IF m >= 3 THEN Gate!PARTIALS ELSE 0)
InB(m) == run.origin["B"] + (IF m >= 1 THEN FUNDING ELSE 0) - (IF m >= 2 THEN FACE_VALUE ELSE 0)
                          + (IF m >= 3 THEN Gate!PARTIALS ELSE 0)
PaidBefore(k) == IF k <= 2 THEN 0 ELSE IF k <= 5 THEN 1 ELSE IF k <= 9 THEN 2 ELSE 3
Current == Gate!Step(Gate!Order[run.next], run.number)

\* Where the run is, the allowance of the payment it is at, or about to be.
Approved ==
    /\ run.next = 1 /\ run.sent /\ pool = {} => allowance["A"] >= FUNDING
    /\ run.next = 2 /\ (run.sent => pool # {}) => allowance["A"] >= FUNDING
    /\ run.next = 4 /\ run.sent /\ pool = {} => allowance["B"] >= FACE_VALUE
    /\ run.next = 5 /\ (run.sent => pool # {}) => allowance["B"] >= FACE_VALUE
    /\ run.next = 8 /\ run.sent /\ pool = {} => allowance["H"] >= Gate!PARTIALS
    /\ run.next = 9 /\ (run.sent => pool # {}) => allowance["H"] >= Gate!PARTIALS

Paid(m) == Own = FirstPaid(m) /\ usdc["A"] = InA(m) /\ usdc["B"] = InB(m)

Standing(m) ==
    /\ Paid(m)
    /\ run.next = 0 =>
          /\ \A x \in pool : x.run = run.number /\ (x.step \in Gate!Range(Gate!Kinds) => m < 3 /\ x.step = Gate!Kinds[m + 1])
          /\ \A x, y \in pool : x = y
    /\ run.next # 0 /\ ~run.sent => pool = {} /\ m = PaidBefore(run.next)
    /\ run.next # 0 /\ run.sent =>
          /\ pool \subseteq {Current}
          /\ m = PaidBefore(run.next) + (IF pool = {} /\ run.next \in {2, 5, 9} THEN 1 ELSE 0)

Account ==
    /\ run.next # 0 => run.number # 0 /\ ~run.moved /\ run.result = "running"
    /\ run.sent => run.next \in {1, 2, 4, 5, 7, 8, 9}
    /\ run.number # 0 => run.origin["A"] >= FUNDING /\ run.origin["B"] >= FACE_VALUE - FUNDING
    /\ run.clean /\ ~run.moved => \E m \in 0..3 : Standing(m)
    /\ run.clean /\ run.next # 0 => Approved
    /\ run.clean => run.result \notin {"unpaid", "failed"}

GateInv == Shape /\ Checking /\ Account

-----------------------------------------------------------------------------
(* The tables. *)

LEMMA HeldIsState ==
  ASSUME NEW a \in Nat, NEW b \in Nat, NEW h \in Nat
  PROVE  /\ Gate!Held(a, b, h) \in [Holders -> Nat]
         /\ Gate!Held(a, b, h)["A"] = a /\ Gate!Held(a, b, h)["B"] = b /\ Gate!Held(a, b, h)["H"] = h
BY DEF Gate!Held, Holders

LEMMA KindsAre ==
  /\ Gate!Kinds[1] = "fund" /\ Gate!Kinds[2] = "repay" /\ Gate!Kinds[3] = "double"
  /\ DOMAIN Gate!Kinds = 1..3 /\ Gate!Range(Gate!Kinds) = {"fund", "repay", "double"}
<1>1. /\ Gate!Kinds[1] = "fund" /\ Gate!Kinds[2] = "repay" /\ Gate!Kinds[3] = "double" /\ DOMAIN Gate!Kinds = 1..3
  BY DEF Gate!Kinds
<1>2. \A i \in 1..3 : i = 1 \/ i = 2 \/ i = 3
  OBVIOUS
<1>3. Gate!Range(Gate!Kinds) = {Gate!Kinds[i] : i \in 1..3}
  BY <1>1 DEF Gate!Range
<1> QED BY <1>1, <1>2, <1>3

LEMMA OrderIs ==
  /\ Len(Gate!Order) = 15
  /\ Gate!Order[1] = "approveA" /\ Gate!Order[2] = "fund" /\ Gate!Order[3] = "requireB" /\ Gate!Order[4] = "approveB"
  /\ Gate!Order[5] = "repay" /\ Gate!Order[6] = "requireA" /\ Gate!Order[7] = "deploy" /\ Gate!Order[8] = "approveHelper"
  /\ Gate!Order[9] = "double" /\ Gate!Order[10] = "record" /\ Gate!Order[11] = "wait" /\ Gate!Order[12] = "fund.json"
  /\ Gate!Order[13] = "repay.json" /\ Gate!Order[14] = "double.json" /\ Gate!Order[15] = "index"
BY DEF Gate!Order

\* The place of each step of a run.
LEMMA DoingIs ==
  ASSUME run.next \in 0..15
  PROVE  /\ run.next = 0 => Gate!Doing = "nothing"
         /\ run.next # 0 => Gate!Doing = Gate!Order[run.next]
         /\ Gate!Doing = "approveA" <=> run.next = 1
         /\ Gate!Doing = "fund" <=> run.next = 2
         /\ Gate!Doing = "requireB" <=> run.next = 3
         /\ Gate!Doing = "approveB" <=> run.next = 4
         /\ Gate!Doing = "repay" <=> run.next = 5
         /\ Gate!Doing = "requireA" <=> run.next = 6
         /\ Gate!Doing = "deploy" <=> run.next = 7
         /\ Gate!Doing = "approveHelper" <=> run.next = 8
         /\ Gate!Doing = "double" <=> run.next = 9
         /\ Gate!Doing = "record" <=> run.next = 10
         /\ Gate!Doing = "wait" <=> run.next = 11
         /\ Gate!Doing \in {"fund.json", "repay.json", "double.json"} <=> run.next \in {12, 13, 14}
         /\ Gate!Doing = "index" <=> run.next = 15
         /\ Gate!Doing \in Gate!Sends <=> run.next \in {1, 2, 4, 5, 7, 8, 9}
         /\ Gate!Doing \in Gate!Range(Gate!Kinds) <=> run.next \in {2, 5, 9}
<1>1. \/ run.next = 0 \/ run.next = 1 \/ run.next = 2 \/ run.next = 3 \/ run.next = 4 \/ run.next = 5
      \/ run.next = 6 \/ run.next = 7 \/ run.next = 8 \/ run.next = 9 \/ run.next = 10 \/ run.next = 11
      \/ run.next = 12 \/ run.next = 13 \/ run.next = 14 \/ run.next = 15
  OBVIOUS
<1>2. (run.next = 0 => Gate!Doing = "nothing") /\ (run.next # 0 => Gate!Doing = Gate!Order[run.next])
  BY DEF Gate!Doing, Gate!Idle
<1> QED BY <1>1, <1>2, OrderIs, KindsAre DEF Gate!Sends

\* What a payment moves, and with whose allowance.
LEMMA PaymentIs ==
  /\ Gate!Payment("fund") = [from |-> "A", to |-> "B", amount |-> FUNDING, by |-> "A"]
  /\ Gate!Payment("repay") = [from |-> "B", to |-> "A", amount |-> FACE_VALUE, by |-> "B"]
  /\ Gate!Payment("double") = [from |-> "A", to |-> "B", amount |-> Gate!PARTIALS, by |-> "H"]
BY DEF Gate!Payment

LEMMA MovedIs ==
  ASSUME NEW u \in [Holders -> Int], NEW m, m.from \in Holders, m.to \in Holders, m.from # m.to,
         m.amount \in Int
  PROVE  /\ Gate!Moved(u, m) \in [Holders -> Int]
         /\ Gate!Moved(u, m)[m.from] = u[m.from] - m.amount
         /\ Gate!Moved(u, m)[m.to] = u[m.to] + m.amount
         /\ \A w \in Holders \ {m.from, m.to} : Gate!Moved(u, m)[w] = u[w]
<1> DEFINE one == [u EXCEPT ![m.from] = @ - m.amount]
           two == [one EXCEPT ![m.to] = @ + m.amount]
<1>1. u[m.from] - m.amount \in Int
  OBVIOUS
<1>2. /\ one \in [Holders -> Int] /\ one[m.from] = u[m.from] - m.amount
      /\ \A w \in Holders \ {m.from} : one[w] = u[w]
  BY <1>1
<1> HIDE DEF one
<1>3. one[m.to] + m.amount \in Int
  BY <1>2
<1>4. /\ two \in [Holders -> Int] /\ two[m.to] = one[m.to] + m.amount
      /\ \A w \in Holders \ {m.to} : two[w] = one[w]
  BY <1>2, <1>3
<1>5. Gate!Moved(u, m) = two
  BY DEF Gate!Moved, one
<1> HIDE DEF two
<1> QED BY <1>2, <1>4, <1>5

-----------------------------------------------------------------------------
(* The plan. *)

LEMMA MovementsAre ==
  /\ Len(Gate!LIVE_MOVEMENTS) = 4 /\ DOMAIN Gate!LIVE_MOVEMENTS = 1..4
  /\ Gate!LIVE_MOVEMENTS[1] = [from |-> "A", to |-> "B", amount |-> FUNDING]
  /\ Gate!LIVE_MOVEMENTS[2] = [from |-> "B", to |-> "A", amount |-> FACE_VALUE]
  /\ Gate!LIVE_MOVEMENTS[3] = [from |-> "A", to |-> "H", amount |-> Gate!PARTIALS]
  /\ Gate!LIVE_MOVEMENTS[4] = [from |-> "H", to |-> "B", amount |-> Gate!PARTIALS]
BY DEF Gate!LIVE_MOVEMENTS

AmountsAre == /\ FUNDING \in Int /\ FACE_VALUE \in Int /\ Gate!PARTIALS \in Int /\ Gate!PARTIALS = FUNDING
              /\ FUNDING > 0 /\ FACE_VALUE > FUNDING
LEMMA Amounts == AmountsAre
BY GateConstants DEF Gate!PARTIALS, AmountsAre

ProjectBody(u, h) ==
    [k \in 1..(Len(Gate!LIVE_MOVEMENTS) + 1) |-> IF k = 1 THEN u ELSE Gate!Moved(h[k - 1], Gate!LIVE_MOVEMENTS[k - 1])]

\* The states before the four movements, whether they are affordable or not.
LEMMA ProjectIs ==
  ASSUME NEW u
  PROVE  /\ Gate!Project(u)[1] = u
         /\ Gate!Project(u)[2] = Gate!Moved(Gate!Project(u)[1], Gate!LIVE_MOVEMENTS[1])
         /\ Gate!Project(u)[3] = Gate!Moved(Gate!Project(u)[2], Gate!LIVE_MOVEMENTS[2])
         /\ Gate!Project(u)[4] = Gate!Moved(Gate!Project(u)[3], Gate!LIVE_MOVEMENTS[3])
<1> DEFINE p == CHOOSE h : h = ProjectBody(u, h)
           s2 == Gate!Moved(u, Gate!LIVE_MOVEMENTS[1])
           s3 == Gate!Moved(s2, Gate!LIVE_MOVEMENTS[2])
           s4 == Gate!Moved(s3, Gate!LIVE_MOVEMENTS[3])
           s5 == Gate!Moved(s4, Gate!LIVE_MOVEMENTS[4])
           g == [k \in 1..5 |-> IF k = 1 THEN u ELSE IF k = 2 THEN s2 ELSE IF k = 3 THEN s3
                                ELSE IF k = 4 THEN s4 ELSE s5]
<1>1. Gate!Project(u) = p
  BY DEF Gate!Project, ProjectBody
<1>2. g = ProjectBody(u, g)
  <2>1. \A k \in 1..5 : k = 1 \/ k = 2 \/ k = 3 \/ k = 4 \/ k = 5
    OBVIOUS
  <2>2. /\ g[1] = u /\ g[2] = s2 /\ g[3] = s3 /\ g[4] = s4 /\ g[5] = s5
    OBVIOUS
  <2>3. ProjectBody(u, g) = [k \in 1..5 |-> IF k = 1 THEN u ELSE Gate!Moved(g[k - 1], Gate!LIVE_MOVEMENTS[k - 1])]
    BY MovementsAre DEF ProjectBody
  <2>4. ASSUME NEW k \in 1..5 PROVE g[k] = IF k = 1 THEN u ELSE Gate!Moved(g[k - 1], Gate!LIVE_MOVEMENTS[k - 1])
    <3>1. CASE k = 1
      BY <2>2, <3>1
    <3>2. CASE k = 2
      BY <2>2, <3>2
    <3>3. CASE k = 3
      BY <2>2, <3>3
    <3>4. CASE k = 4
      BY <2>2, <3>4
    <3>5. CASE k = 5
      BY <2>2, <3>5
    <3> QED BY <2>1, <3>1, <3>2, <3>3, <3>4, <3>5
  <2>5. g = [k \in 1..5 |-> g[k]]
    OBVIOUS
  <2> HIDE DEF g
  <2>6. [k \in 1..5 |-> g[k]] = [k \in 1..5 |-> IF k = 1 THEN u ELSE Gate!Moved(g[k - 1], Gate!LIVE_MOVEMENTS[k - 1])]
    BY <2>4
  <2> QED BY <2>3, <2>5, <2>6
<1>3. p = ProjectBody(u, p)
  <2>1. \E h : h = ProjectBody(u, h)
    BY <1>2
  <2> HIDE DEF g
  <2> QED BY <2>1
<1> HIDE DEF p, g
<1>4. ASSUME NEW k \in 1..5 PROVE p[k] = IF k = 1 THEN u ELSE Gate!Moved(p[k - 1], Gate!LIVE_MOVEMENTS[k - 1])
  <2>1. p[k] = ProjectBody(u, p)[k]
    BY <1>3, Zenon
  <2> QED BY <2>1, MovementsAre DEF ProjectBody
<1>5. p[1] = u
  BY <1>4
<1>6. p[2] = Gate!Moved(p[1], Gate!LIVE_MOVEMENTS[1])
  BY <1>4
<1>7. p[3] = Gate!Moved(p[2], Gate!LIVE_MOVEMENTS[2])
  BY <1>4
<1>8. p[4] = Gate!Moved(p[3], Gate!LIVE_MOVEMENTS[3])
  BY <1>4
<1> QED BY <1>1, <1>5, <1>6, <1>7, <1>8

\* What the projection says of balances in general.
LEMMA ProjectionIs ==
  ASSUME NEW u \in [Holders -> Int]
  PROVE  /\ 1 \in Gate!Unaffordable(u) <=> u["A"] < FUNDING
         /\ 2 \in Gate!Unaffordable(u) <=> u["B"] + FUNDING < FACE_VALUE
         /\ 3 \in Gate!Unaffordable(u) <=> u["A"] - FUNDING + FACE_VALUE < Gate!PARTIALS
         /\ 4 \in Gate!Unaffordable(u) <=> u["H"] < 0
         /\ Gate!Unaffordable(u) \subseteq {1, 2, 3, 4}
         /\ Gate!Project(u)[1] = u
         /\ Gate!Project(u)[2]["A"] = u["A"] - FUNDING /\ Gate!Project(u)[2]["B"] = u["B"] + FUNDING
<1>1. "A" \in Holders /\ "B" \in Holders /\ "H" \in Holders /\ \A w \in Holders : w = "A" \/ w = "B" \/ w = "H"
  BY DEF Holders
<1>2. AmountsAre
  BY Amounts
<1> DEFINE p == Gate!Project(u)
<1>3. p[1] = u
  BY ProjectIs
<1>4. /\ p[2] \in [Holders -> Int] /\ p[2]["A"] = u["A"] - FUNDING /\ p[2]["B"] = u["B"] + FUNDING
      /\ p[2]["H"] = u["H"]
  <2> DEFINE m == Gate!LIVE_MOVEMENTS[1]
  <2>1. m.from = "A" /\ m.to = "B" /\ m.amount = FUNDING
    BY MovementsAre
  <2>2. p[2] = Gate!Moved(u, m)
    BY ProjectIs
  <2> HIDE DEF m, p
  <2> QED BY <1>1, <1>2, <2>1, <2>2, MovedIs DEF AmountsAre
<1>5. /\ p[3] \in [Holders -> Int] /\ p[3]["A"] = p[2]["A"] + FACE_VALUE /\ p[3]["B"] = p[2]["B"] - FACE_VALUE
      /\ p[3]["H"] = p[2]["H"]
  <2> DEFINE m == Gate!LIVE_MOVEMENTS[2]
  <2>1. m.from = "B" /\ m.to = "A" /\ m.amount = FACE_VALUE
    BY MovementsAre
  <2>2. p[3] = Gate!Moved(p[2], m)
    BY ProjectIs
  <2> HIDE DEF m, p
  <2> QED BY <1>1, <1>2, <1>4, <2>1, <2>2, MovedIs DEF AmountsAre
<1>6. /\ p[4] \in [Holders -> Int] /\ p[4]["H"] = p[3]["H"] + Gate!PARTIALS
  <2> DEFINE m == Gate!LIVE_MOVEMENTS[3]
  <2>1. m.from = "A" /\ m.to = "H" /\ m.amount = Gate!PARTIALS
    BY MovementsAre
  <2>2. p[4] = Gate!Moved(p[3], m)
    BY ProjectIs
  <2> HIDE DEF m, p
  <2> QED BY <1>1, <1>2, <1>5, <2>1, <2>2, MovedIs DEF AmountsAre
<1>7. Gate!Unaffordable(u) = {k \in 1..4 : p[k][Gate!LIVE_MOVEMENTS[k].from] < Gate!LIVE_MOVEMENTS[k].amount}
  BY MovementsAre DEF Gate!Unaffordable
<1> HIDE DEF p
<1>8. 1..4 = {1, 2, 3, 4}
  OBVIOUS
<1>9. u["A"] \in Int /\ u["B"] \in Int /\ u["H"] \in Int
  BY <1>1
<1>10. 1 \in Gate!Unaffordable(u) <=> u["A"] < FUNDING
  BY <1>3, <1>7, MovementsAre
<1>11. 2 \in Gate!Unaffordable(u) <=> u["B"] + FUNDING < FACE_VALUE
  BY <1>4, <1>7, MovementsAre
<1>12. 3 \in Gate!Unaffordable(u) <=> u["A"] - FUNDING + FACE_VALUE < Gate!PARTIALS
  BY <1>4, <1>5, <1>7, MovementsAre
<1>13. 4 \in Gate!Unaffordable(u) <=> u["H"] < 0
  <2>1. 4 \in Gate!Unaffordable(u) <=> u["H"] + Gate!PARTIALS < Gate!PARTIALS
    BY <1>4, <1>5, <1>6, <1>7, MovementsAre
  <2> QED BY <1>2, <1>9, <2>1 DEF AmountsAre
<1> QED BY <1>3, <1>4, <1>7, <1>8, <1>10, <1>11, <1>12, <1>13 DEF p

\* The run is ready with exactly what the minimum says.
LEMMA ReadyIs ==
  ASSUME NEW u \in [Holders -> Int], u["H"] >= 0
  PROVE  Gate!Ready(u) <=> u["A"] >= FUNDING /\ u["B"] >= FACE_VALUE - FUNDING
<1>1. u["A"] \in Int /\ u["B"] \in Int /\ u["H"] \in Int
  BY DEF Holders
<1>2. AmountsAre
  BY Amounts
<1>3. 1 \in Gate!Unaffordable(u) <=> ~ (u["A"] >= FUNDING)
  BY <1>1, <1>2, ProjectionIs DEF AmountsAre
<1>4. 2 \in Gate!Unaffordable(u) <=> ~ (u["B"] >= FACE_VALUE - FUNDING)
  BY <1>1, <1>2, ProjectionIs DEF AmountsAre
<1>5. u["A"] >= FUNDING => 3 \notin Gate!Unaffordable(u)
  BY <1>1, <1>2, ProjectionIs DEF AmountsAre
<1>6. 4 \notin Gate!Unaffordable(u) /\ Gate!Unaffordable(u) \subseteq {1, 2, 3, 4}
  BY <1>1, ProjectionIs
<1> QED BY <1>3, <1>4, <1>5, <1>6 DEF Gate!Ready

-----------------------------------------------------------------------------
(* Where a run stops, and what preflight makes of it. *)

\* Balances without the helper are their two numbers.
LEMMA TwoNumbers ==
  ASSUME NEW u \in [Holders -> Nat], u["H"] = 0, NEW v \in [Holders -> Nat], v["H"] = 0
  PROVE  u = v <=> u["A"] = v["A"] /\ u["B"] = v["B"]
<1>1. ASSUME u["A"] = v["A"], u["B"] = v["B"] PROVE \A w \in Holders : u[w] = v[w]
  BY <1>1 DEF Holders
<1> QED BY <1>1

LEMMA StagesAre ==
  /\ DOMAIN Gate!CANONICAL_STAGES = 1..4
  /\ \A k \in 1..4 : Gate!CANONICAL_STAGES[k] \in [Holders -> Nat] /\ Gate!CANONICAL_STAGES[k]["H"] = 0
  /\ Gate!CANONICAL_STAGES[1] = Gate!MINIMUM_START
  /\ Gate!CANONICAL_STAGES[1]["A"] = FUNDING /\ Gate!CANONICAL_STAGES[1]["B"] = FACE_VALUE - FUNDING
  /\ Gate!CANONICAL_STAGES[2]["A"] = 0 /\ Gate!CANONICAL_STAGES[2]["B"] = FACE_VALUE
  /\ Gate!CANONICAL_STAGES[3]["A"] = FACE_VALUE /\ Gate!CANONICAL_STAGES[3]["B"] = 0
  /\ Gate!CANONICAL_STAGES[4]["A"] = FACE_VALUE - FUNDING /\ Gate!CANONICAL_STAGES[4]["B"] = FUNDING
<1>1. /\ DOMAIN Gate!CANONICAL_STAGES = 1..4 /\ Gate!CANONICAL_STAGES[1] = Gate!MINIMUM_START
      /\ Gate!CANONICAL_STAGES[2] = Gate!Held(0, FACE_VALUE, 0) /\ Gate!CANONICAL_STAGES[3] = Gate!Held(FACE_VALUE, 0, 0)
      /\ Gate!CANONICAL_STAGES[4] = Gate!Held(FACE_VALUE - Gate!PARTIALS, Gate!INITIAL_USDC_A, 0)
  BY DEF Gate!CANONICAL_STAGES
<1>2. Gate!MINIMUM_START = Gate!Held(FUNDING, FACE_VALUE - FUNDING, 0) /\ Gate!INITIAL_USDC_A = FUNDING
  BY DEF Gate!MINIMUM_START, Gate!INITIAL_USDC_A, Gate!INITIAL_USDC_B
<1>3. AmountsAre
  BY Amounts
<1>4. FUNDING \in Nat /\ FACE_VALUE \in Nat /\ FACE_VALUE - FUNDING \in Nat /\ Gate!PARTIALS = FUNDING /\ 0 \in Nat
  BY <1>3 DEF AmountsAre
<1>5. Gate!CANONICAL_STAGES[1] = Gate!Held(FUNDING, FACE_VALUE - FUNDING, 0)
  BY <1>1, <1>2
<1>6. Gate!CANONICAL_STAGES[4] = Gate!Held(FACE_VALUE - FUNDING, FUNDING, 0)
  BY <1>1, <1>2, <1>4
<1>7. \A k \in 1..4 : k = 1 \/ k = 2 \/ k = 3 \/ k = 4
  OBVIOUS
<1>8. /\ Gate!CANONICAL_STAGES[1] \in [Holders -> Nat] /\ Gate!CANONICAL_STAGES[1]["H"] = 0
      /\ Gate!CANONICAL_STAGES[1]["A"] = FUNDING /\ Gate!CANONICAL_STAGES[1]["B"] = FACE_VALUE - FUNDING
  BY <1>4, <1>5, HeldIsState
<1> PICK zero \in Nat : zero = 0
  OBVIOUS
<1>9. /\ Gate!CANONICAL_STAGES[2] \in [Holders -> Nat] /\ Gate!CANONICAL_STAGES[2]["H"] = 0
      /\ Gate!CANONICAL_STAGES[2]["A"] = 0 /\ Gate!CANONICAL_STAGES[2]["B"] = FACE_VALUE
  <2>1. Gate!CANONICAL_STAGES[2] = Gate!Held(zero, FACE_VALUE, zero)
    BY <1>1
  <2>2. FACE_VALUE \in Nat
    BY <1>4
  <2> QED BY <2>1, <2>2, zero \in Nat, zero = 0, HeldIsState
<1>10. /\ Gate!CANONICAL_STAGES[3] \in [Holders -> Nat] /\ Gate!CANONICAL_STAGES[3]["H"] = 0
       /\ Gate!CANONICAL_STAGES[3]["A"] = FACE_VALUE /\ Gate!CANONICAL_STAGES[3]["B"] = 0
  <2>1. Gate!CANONICAL_STAGES[3] = Gate!Held(FACE_VALUE, zero, zero)
    BY <1>1
  <2>2. FACE_VALUE \in Nat
    BY <1>4
  <2> QED BY <2>1, <2>2, zero \in Nat, zero = 0, HeldIsState
<1>11. /\ Gate!CANONICAL_STAGES[4] \in [Holders -> Nat] /\ Gate!CANONICAL_STAGES[4]["H"] = 0
       /\ Gate!CANONICAL_STAGES[4]["A"] = FACE_VALUE - FUNDING /\ Gate!CANONICAL_STAGES[4]["B"] = FUNDING
  BY <1>4, <1>6, HeldIsState
<1> QED BY <1>1, <1>7, <1>8, <1>9, <1>10, <1>11

LEMMA NatIsInt == [Holders -> Nat] \subseteq [Holders -> Int]
OBVIOUS

\* After any payment the balances of a minimal run are taken for what they are.
LEMMA StagesAreTold ==
  /\ Gate!Verdict(Gate!CANONICAL_STAGES[1]) = "ready"
  /\ \A k \in 2..4 : Gate!Verdict(Gate!CANONICAL_STAGES[k]) = "skewed"
<1>1. AmountsAre /\ FACE_VALUE # 2 * FUNDING
  BY Amounts, GateConstants
<1>2. ASSUME NEW k \in 1..4
      PROVE  Gate!Ready(Gate!CANONICAL_STAGES[k]) <=>
                Gate!CANONICAL_STAGES[k]["A"] >= FUNDING /\ Gate!CANONICAL_STAGES[k]["B"] >= FACE_VALUE - FUNDING
  <2>1. Gate!CANONICAL_STAGES[k] \in [Holders -> Int] /\ Gate!CANONICAL_STAGES[k]["H"] >= 0
    BY StagesAre, NatIsInt
  <2> HIDE DEF Gate!CANONICAL_STAGES
  <2>2. PICK u : u = Gate!CANONICAL_STAGES[k]
    OBVIOUS
  <2>3. u \in [Holders -> Int] /\ u["H"] >= 0
    BY <2>1, <2>2
  <2>4. Gate!Ready(u) <=> u["A"] >= FUNDING /\ u["B"] >= FACE_VALUE - FUNDING
    BY <2>3, ReadyIs
  <2> QED BY <2>2, <2>4
<1>3. Gate!Ready(Gate!CANONICAL_STAGES[1])
  BY <1>1, <1>2, StagesAre DEF AmountsAre
<1>4. ~Gate!Ready(Gate!CANONICAL_STAGES[2]) /\ ~Gate!Ready(Gate!CANONICAL_STAGES[3])
  BY <1>1, <1>2, StagesAre DEF AmountsAre
<1>5. ~Gate!Ready(Gate!CANONICAL_STAGES[4])
  BY <1>1, <1>2, StagesAre DEF AmountsAre
<1>6. ASSUME NEW k \in 2..4 PROVE ~Gate!Ready(Gate!CANONICAL_STAGES[k]) /\ Gate!Partial(Gate!CANONICAL_STAGES[k])
  <2>1. k = 2 \/ k = 3 \/ k = 4
    OBVIOUS
  <2>2. k \in Gate!Stages(Gate!CANONICAL_STAGES[k]) \ {1}
    BY <2>1, StagesAre DEF Gate!Stages
  <2> QED BY <1>4, <1>5, <2>1, <2>2 DEF Gate!Partial
<1>7. Gate!Verdict(Gate!CANONICAL_STAGES[1]) = "ready"
  BY <1>3, Zenon DEF Gate!Verdict
<1>8. ASSUME NEW k \in 2..4 PROVE Gate!Verdict(Gate!CANONICAL_STAGES[k]) = "skewed"
  BY <1>6 DEF Gate!Verdict
<1> QED BY <1>7, <1>8

\* A remedy that is enough: it fills the gap of one wallet, and leaves the other enough.
Enough(u, n) ==
    /\ n.to \in {"A", "B"} /\ n.missing \in Nat /\ n.donors \subseteq {"A", "B"} \ {n.to}
    /\ u[n.to] + n.missing >= Gate!MINIMUM_START[n.to]
    /\ \A w \in {"A", "B"} \ {n.to} : u[w] >= Gate!MINIMUM_START[w]
    /\ \A w \in n.donors : u[w] - n.missing >= Gate!MINIMUM_START[w]

LEMMA MinimumIs ==
  /\ Gate!MINIMUM_START \in [Holders -> Nat]
  /\ Gate!MINIMUM_START["A"] = FUNDING /\ Gate!MINIMUM_START["B"] = FACE_VALUE - FUNDING
BY StagesAre

\* The first payment that cannot be made is the first of A, or the first of B.
LEMMA FirstShort ==
  ASSUME NEW u \in [Holders -> Int]
  PROVE  /\ u["A"] < FUNDING => Gate!Min(Gate!Unaffordable(u)) = 1
         /\ u["A"] >= FUNDING /\ u["B"] + FUNDING < FACE_VALUE => Gate!Min(Gate!Unaffordable(u)) = 2
<1> DEFINE U == Gate!Unaffordable(u)
<1>1. /\ 1 \in U <=> u["A"] < FUNDING
      /\ 2 \in U <=> u["B"] + FUNDING < FACE_VALUE
      /\ U \subseteq {1, 2, 3, 4}
  BY ProjectionIs
<1>2. u["A"] \in Int /\ FUNDING \in Int
  BY Amounts DEF Holders, AmountsAre
<1>3. ASSUME NEW k \in U, \A y \in U : k <= y PROVE Gate!Min(U) = k
  <2> HIDE DEF U
  <2>1. \A x \in U : x \in Int
    BY <1>1
  <2>2. \A x \in U : (\A y \in U : x <= y) => x = k
    BY <1>3, <2>1
  <2> QED BY <1>3, <2>2 DEF Gate!Min
<1>4. ASSUME u["A"] < FUNDING PROVE Gate!Min(U) = 1
  <2>1. 1 \in U /\ \A y \in U : 1 <= y
    BY <1>1, <1>4
  <2> HIDE DEF U
  <2> QED BY <1>3, <2>1
<1>5. ASSUME u["A"] >= FUNDING, u["B"] + FUNDING < FACE_VALUE PROVE Gate!Min(U) = 2
  <2>1. 2 \in U /\ 1 \notin U
    BY <1>1, <1>2, <1>5
  <2>2. \A y \in U : 2 <= y
    BY <1>1, <2>1
  <2> HIDE DEF U
  <2> QED BY <1>3, <2>1, <2>2
<1> QED BY <1>4, <1>5

\* A run that got somewhere has one remedy, from the wallet the tokens went to.
LEMMA AdviceIfPartial ==
  ASSUME NEW u \in [Holders -> Nat], u["H"] = 0, ~Gate!Ready(u), Gate!Partial(u)
  PROVE  \E n : Gate!Advice(u) = {n} /\ Enough(u, n)
<1>1. AmountsAre
  BY Amounts
<1>2. u \in [Holders -> Int] /\ u["A"] \in Nat /\ u["B"] \in Nat
  BY NatIsInt DEF Holders
<1>3. /\ 1 \in Gate!Unaffordable(u) <=> u["A"] < FUNDING
      /\ 2 \in Gate!Unaffordable(u) <=> u["B"] + FUNDING < FACE_VALUE
      /\ Gate!Unaffordable(u) \subseteq {1, 2, 3, 4}
      /\ Gate!Project(u)[1] = u
      /\ Gate!Project(u)[2]["A"] = u["A"] - FUNDING /\ Gate!Project(u)[2]["B"] = u["B"] + FUNDING
  BY <1>2, ProjectionIs
<1>4. PICK s \in 2..4 : u = Gate!CANONICAL_STAGES[s]
  BY StagesAre DEF Gate!Partial, Gate!Stages
<1>5. \/ u["A"] = 0 /\ u["B"] = FACE_VALUE
      \/ u["A"] = FACE_VALUE /\ u["B"] = 0
      \/ u["A"] = FACE_VALUE - FUNDING /\ u["B"] = FUNDING
  <2>1. s = 2 \/ s = 3 \/ s = 4
    OBVIOUS
  <2> QED BY <1>4, <2>1, StagesAre
<1> DEFINE k == Gate!Min(Gate!Unaffordable(u))
           at == Gate!Project(u)[k]
           short == Gate!LIVE_MOVEMENTS[k].from
           missing == Gate!LIVE_MOVEMENTS[k].amount - at[short]
           n == [to |-> short, missing |-> missing, donors |-> {w \in {"A", "B"} \ {short} : at[w] >= missing}]
<1>6. Gate!Advice(u) = {n}
  BY DEF Gate!Advice
<1>7. CASE u["A"] < FUNDING
  <2>1. k = 1
    BY <1>2, <1>7, FirstShort
  <2>2. at = u /\ short = "A" /\ missing = FUNDING - u["A"]
    BY <1>3, <2>1, MovementsAre
  <2> HIDE DEF k, at, short, missing
  <2>3. n.to = "A" /\ n.missing = FUNDING - u["A"] /\ n.donors = {w \in {"B"} : u[w] >= FUNDING - u["A"]}
    BY <2>2
  <2> HIDE DEF n
  <2>4. Enough(u, n)
    BY <1>1, <1>2, <1>5, <1>7, <2>3, MinimumIs DEF Enough, AmountsAre
  <2> QED BY <1>6, <2>4
<1>8. CASE ~ (u["A"] < FUNDING)
  <2>1. u["B"] + FUNDING < FACE_VALUE
    <3>1. ~ (u["B"] >= FACE_VALUE - FUNDING)
      BY <1>1, <1>2, <1>8, ReadyIs DEF AmountsAre
    <3> QED BY <1>1, <1>2, <3>1 DEF AmountsAre
  <2>2. k = 2
    BY <1>1, <1>2, <1>8, <2>1, FirstShort DEF AmountsAre
  <2>3. short = "B" /\ missing = FACE_VALUE - (u["B"] + FUNDING) /\ at["A"] = u["A"] - FUNDING
    BY <1>3, <2>2, MovementsAre
  <2> HIDE DEF k, at, short, missing
  <2>4. /\ n.to = "B" /\ n.missing = FACE_VALUE - (u["B"] + FUNDING)
        /\ \A w \in n.donors : w = "A" /\ u["A"] - FUNDING >= n.missing
        /\ n.donors \subseteq {"A"}
    BY <2>3
  <2> HIDE DEF n
  <2>5. Enough(u, n)
    BY <1>1, <1>2, <1>5, <1>8, <2>1, <2>4, MinimumIs DEF Enough, AmountsAre
  <2> QED BY <1>6, <2>5
<1> QED BY <1>7, <1>8

\* With tokens at the helper the first payment that cannot be made is made affordable,
\* at whatever cost to the next.
Filled(u, n) ==
    /\ n.to = "A" /\ u["A"] < FUNDING /\ n.missing = FUNDING - u["A"]
    /\ n.donors \subseteq {"B"} /\ \A w \in n.donors : u[w] >= n.missing

LEMMA AdviceIfStray ==
  ASSUME NEW u \in [Holders -> Nat], u["H"] > 0, ~Gate!Ready(u)
  PROVE  \E n : Gate!Advice(u) = {n} /\ (Enough(u, n) \/ Filled(u, n))
<1>1. AmountsAre
  BY Amounts
<1>2. u \in [Holders -> Int] /\ u["A"] \in Nat /\ u["B"] \in Nat /\ u["H"] \in Nat
  BY NatIsInt DEF Holders
<1>3. /\ Gate!Project(u)[1] = u
      /\ Gate!Project(u)[2]["A"] = u["A"] - FUNDING /\ Gate!Project(u)[2]["B"] = u["B"] + FUNDING
  BY <1>2, ProjectionIs
<1> DEFINE k == Gate!Min(Gate!Unaffordable(u))
           at == Gate!Project(u)[k]
           short == Gate!LIVE_MOVEMENTS[k].from
           missing == Gate!LIVE_MOVEMENTS[k].amount - at[short]
           n == [to |-> short, missing |-> missing, donors |-> {w \in {"A", "B"} \ {short} : at[w] >= missing}]
<1>4. Gate!Partial(u)
  BY DEF Gate!Partial
<1>5. Gate!Advice(u) = {n}
  BY <1>4 DEF Gate!Advice
<1>6. CASE u["A"] < FUNDING
  <2>1. k = 1
    BY <1>2, <1>6, FirstShort
  <2>2. at = u /\ short = "A" /\ missing = FUNDING - u["A"]
    BY <1>3, <2>1, MovementsAre
  <2> HIDE DEF k, at, short, missing
  <2>3. n.to = "A" /\ n.missing = FUNDING - u["A"] /\ n.donors = {w \in {"B"} : u[w] >= FUNDING - u["A"]}
    BY <2>2
  <2> HIDE DEF n
  <2>4. Filled(u, n)
    BY <1>6, <2>3 DEF Filled
  <2> QED BY <1>5, <2>4
<1>7. CASE ~ (u["A"] < FUNDING)
  <2>1. u["B"] + FUNDING < FACE_VALUE
    <3>1. ~ (u["B"] >= FACE_VALUE - FUNDING)
      BY <1>1, <1>2, <1>7, ReadyIs DEF AmountsAre
    <3> QED BY <1>1, <1>2, <3>1 DEF AmountsAre
  <2>2. k = 2
    BY <1>1, <1>2, <1>7, <2>1, FirstShort DEF AmountsAre
  <2>3. short = "B" /\ missing = FACE_VALUE - (u["B"] + FUNDING) /\ at["A"] = u["A"] - FUNDING
    BY <1>3, <2>2, MovementsAre
  <2> HIDE DEF k, at, short, missing
  <2>4. /\ n.to = "B" /\ n.missing = FACE_VALUE - (u["B"] + FUNDING)
        /\ \A w \in n.donors : w = "A" /\ u["A"] - FUNDING >= n.missing
        /\ n.donors \subseteq {"A"}
    BY <2>3
  <2> HIDE DEF n
  <2>5. Enough(u, n)
    BY <1>1, <1>2, <1>7, <2>1, <2>4, MinimumIs DEF Enough, AmountsAre
  <2> QED BY <1>5, <2>5
<1> QED BY <1>6, <1>7

\* Otherwise each wallet that is short of the minimum is filled up to it.
LEMMA AdviceIfNone ==
  ASSUME NEW u \in [Holders -> Nat], ~Gate!Ready(u), ~Gate!Partial(u)
  PROVE  \/ \E n : Gate!Advice(u) = {n} /\ Enough(u, n)
         \/ \E a, b : /\ Gate!Advice(u) = {a, b} /\ a # b
                      /\ a.to = "A" /\ a.missing \in Nat /\ u["A"] + a.missing = FUNDING /\ a.donors = {}
                      /\ b.to = "B" /\ b.missing \in Nat /\ u["B"] + b.missing = FACE_VALUE - FUNDING
                      /\ b.donors = {}
<1>1. AmountsAre
  BY Amounts
<1>2. u \in [Holders -> Int] /\ u["A"] \in Nat /\ u["B"] \in Nat /\ u["H"] >= 0
  BY NatIsInt DEF Holders
<1> DEFINE M == Gate!MINIMUM_START
           need(w) == [to |-> w, missing |-> M[w] - u[w],
                       donors |-> {v \in {"A", "B"} \ {w} : u[v] - M[v] >= M[w] - u[w]}]
           short == {v \in {"A", "B"} : u[v] < M[v]}
<1>3. Gate!Advice(u) = {need(w) : w \in short}
  BY DEF Gate!Advice
<1>4. M["A"] = FUNDING /\ M["B"] = FACE_VALUE - FUNDING /\ M["A"] \in Nat /\ M["B"] \in Nat
  BY <1>1, MinimumIs DEF AmountsAre
<1>5. u["A"] < M["A"] \/ u["B"] < M["B"]
  BY <1>1, <1>2, <1>4, ReadyIs DEF AmountsAre
<1> HIDE DEF M
<1>6. ASSUME NEW w \in {"A", "B"}, NEW o \in {"A", "B"}, w # o, u[w] < M[w], ~ (u[o] < M[o])
      PROVE  \E n : Gate!Advice(u) = {n} /\ Enough(u, n)
  <2>1. short = {w}
    BY <1>6
  <2> PICK n : n = need(w)
    OBVIOUS
  <2>2. Gate!Advice(u) = {n}
    BY <1>3, <2>1
  <2>3. /\ n.to = w /\ n.missing = M[w] - u[w] /\ n.donors \subseteq {o}
        /\ \A v \in n.donors : u[v] - M[v] >= M[w] - u[w]
    BY <1>6
  <2>4. u[w] \in Nat /\ u[o] \in Nat /\ M[w] \in Nat /\ M[o] \in Nat
    BY <1>2, <1>4, <1>6
  <2>5. n.missing \in Nat /\ u[w] + n.missing >= M[w] /\ u[o] >= M[o]
    BY <1>6, <2>3, <2>4
  <2>6. \A v \in n.donors : u[v] - n.missing >= M[v]
    BY <2>3, <2>4
  <2>7. \A v \in {"A", "B"} \ {n.to} : v = o
    BY <1>6, <2>3
  <2>8. Enough(u, n)
    BY <1>6, <2>3, <2>5, <2>6, <2>7 DEF Enough, M
  <2> QED BY <2>2, <2>8
<1>7. CASE u["A"] < M["A"] /\ u["B"] < M["B"]
  <2>1. short = {"A", "B"}
    BY <1>7
  <2> PICK a, b : a = need("A") /\ b = need("B")
    OBVIOUS
  <2>2. Gate!Advice(u) = {a, b}
    BY <1>3, <2>1
  <2>3. /\ a.to = "A" /\ a.missing = M["A"] - u["A"]
        /\ a.donors = {v \in {"A", "B"} \ {"A"} : u[v] - M[v] >= M["A"] - u["A"]}
        /\ b.to = "B" /\ b.missing = M["B"] - u["B"]
        /\ b.donors = {v \in {"A", "B"} \ {"B"} : u[v] - M[v] >= M["B"] - u["B"]}
    OBVIOUS
  <2>4. a.donors = {} /\ b.donors = {}
    BY <1>2, <1>4, <1>7, <2>3
  <2>5. a # b
    BY <2>3
  <2>6. a.missing \in Nat /\ b.missing \in Nat /\ u["A"] + a.missing = M["A"] /\ u["B"] + b.missing = M["B"]
    BY <1>2, <1>4, <1>7, <2>3
  <2> QED BY <1>4, <2>2, <2>3, <2>4, <2>5, <2>6
<1>8. CASE ~ (u["A"] < M["A"] /\ u["B"] < M["B"])
  <2>1. CASE u["A"] < M["A"]
    BY <1>6, <1>8, <2>1
  <2>2. CASE u["B"] < M["B"]
    BY <1>6, <1>8, <2>2
  <2> QED BY <1>5, <2>1, <2>2
<1> QED BY <1>7, <1>8

-----------------------------------------------------------------------------
(* What the operator does. *)

Give(faucet, need, held) ==
    IF faucet \/ need.donors = {} THEN [held EXCEPT ![need.to] = @ + need.missing]
    ELSE Gate!Moved(held, [from |-> CHOOSE w \in need.donors : TRUE, to |-> need.to, amount |-> need.missing])
GiveBody(faucet, u, T, h) ==
    [s \in SUBSET T |-> IF s = {} THEN u ELSE Give(faucet, Picked(s), h[s \ {Picked(s)}])]
Given(faucet, u, T) == (CHOOSE h : h = GiveBody(faucet, u, T, h))[T]

LEMMA FollowIs ==
  ASSUME Gate!FollowAdvice
  PROVE  \E faucet \in BOOLEAN : usdc' = Given(faucet, usdc, Gate!Advice(usdc))
BY DEF Gate!FollowAdvice, Gate!FoldSet, Gate!MapThenFoldSet, Given, GiveBody, Give, Picked

LEMMA GivenOne ==
  ASSUME NEW f, NEW u, NEW n
  PROVE  Given(f, u, {n}) = Give(f, n, u)
<1> DEFINE T == {n}
           g == [s \in SUBSET T |-> IF s = {} THEN u ELSE Give(f, n, u)]
           h == CHOOSE k : k = GiveBody(f, u, T, k)
<1>1. g = GiveBody(f, u, T, g)
  <2>1. ASSUME NEW s \in SUBSET T PROVE g[s] = IF s = {} THEN u ELSE Give(f, Picked(s), g[s \ {Picked(s)}])
    <3>1. CASE s = {}
      BY <3>1
    <3>2. CASE s # {}
      <4>1. s = T
        BY <3>2
      <4>2. Picked(s) = n
        BY <4>1 DEF Picked
      <4>3. s \ {Picked(s)} = {} /\ {} \in SUBSET T
        BY <4>1, <4>2
      <4>4. g[{}] = u /\ g[s] = Give(f, n, u)
        BY <3>2, <4>3
      <4>5. g[s \ {Picked(s)}] = u
        <5> HIDE DEF g
        <5> QED BY <4>3, <4>4
      <4> QED BY <3>2, <4>2, <4>4, <4>5
    <3> QED BY <3>1, <3>2
  <2>2. g = [s \in SUBSET T |-> g[s]]
    OBVIOUS
  <2> HIDE DEF g
  <2>3. [s \in SUBSET T |-> g[s]]
           = [s \in SUBSET T |-> IF s = {} THEN u ELSE Give(f, Picked(s), g[s \ {Picked(s)}])]
    BY <2>1
  <2> QED BY <2>2, <2>3 DEF GiveBody
<1>2. h = GiveBody(f, u, T, h)
  <2>1. \E k : k = GiveBody(f, u, T, k)
    BY <1>1
  <2> HIDE DEF g, T
  <2> QED BY <2>1
<1>3. Given(f, u, T) = h[T]
  BY DEF Given
<1> HIDE DEF h, g
<1>4. \A s \in SUBSET T : h[s] = IF s = {} THEN u ELSE Give(f, Picked(s), h[s \ {Picked(s)}])
  <2> SUFFICES ASSUME NEW s \in SUBSET T
               PROVE  h[s] = IF s = {} THEN u ELSE Give(f, Picked(s), h[s \ {Picked(s)}])
    OBVIOUS
  <2>1. h[s] = GiveBody(f, u, T, h)[s]
    BY <1>2, Zenon
  <2> QED BY <2>1 DEF GiveBody
<1>5. T \in SUBSET T /\ T # {} /\ {} \in SUBSET T
  OBVIOUS
<1>6. Picked(T) = n /\ T \ {n} = {}
  BY DEF Picked
<1>7. h[{}] = u
  BY <1>4, <1>5
<1>8. h[T] = Give(f, Picked(T), h[T \ {Picked(T)}])
  <2> HIDE DEF T
  <2> QED BY <1>4, <1>5
<1>9. h[T \ {Picked(T)}] = u
  <2> HIDE DEF T
  <2> QED BY <1>6, <1>7
<1> QED BY <1>3, <1>6, <1>8, <1>9

LEMMA GivenTwo ==
  ASSUME NEW f, NEW u, NEW a, NEW b, a # b
  PROVE  \/ Given(f, u, {a, b}) = Give(f, a, Give(f, b, u))
         \/ Given(f, u, {a, b}) = Give(f, b, Give(f, a, u))
<1> DEFINE T == {a, b}
<1>1. PICK p, q : p = Picked(T) /\ T = {p, q} /\ p # q
  <2>1. Picked(T) \in T
    BY DEF Picked
  <2>2. CASE Picked(T) = a
    BY <2>2
  <2>3. CASE Picked(T) = b
    <3>1. T = {b, a}
      OBVIOUS
    <3> QED BY <2>3, <3>1
  <2> QED BY <2>1, <2>2, <2>3
<1>2. (p = a /\ q = b) \/ (p = b /\ q = a)
  BY <1>1
<1> HIDE DEF T
<1> DEFINE last == Give(f, p, Give(f, q, u))
           g == [s \in SUBSET T |-> IF s = {} THEN u ELSE IF s = T THEN last ELSE Give(f, Picked(s), u)]
           h == CHOOSE k : k = GiveBody(f, u, T, k)
<1>3. g = GiveBody(f, u, T, g)
  <2>1. ASSUME NEW s \in SUBSET T PROVE g[s] = IF s = {} THEN u ELSE Give(f, Picked(s), g[s \ {Picked(s)}])
    <3>0. {} \in SUBSET T /\ g[{}] = u
      OBVIOUS
    <3>1. CASE s = {}
      BY <3>1
    <3>2. CASE s = T
      <4>1. s # {} /\ T \ {p} = {q} /\ {q} \in SUBSET T /\ {q} # T /\ {q} # {}
        BY <1>1, <3>2
      <4>2. g[s] = last
        BY <3>2, <4>1
      <4>3. Picked({q}) = q
        BY DEF Picked
      <4>4. g[{q}] = Give(f, Picked({q}), u)
        BY <4>1
      <4>5. Picked(s) = p /\ s \ {Picked(s)} = {q}
        BY <1>1, <3>2, <4>1
      <4> HIDE DEF g
      <4>6. g[s \ {Picked(s)}] = Give(f, q, u)
        BY <4>3, <4>4, <4>5
      <4> QED BY <4>1, <4>2, <4>5, <4>6
    <3>3. CASE s # {} /\ s # T
      <4>1. PICK x \in T : s = {x}
        BY <1>1, <3>3
      <4>2. Picked(s) = x
        BY <4>1 DEF Picked
      <4>3. s \ {Picked(s)} = {}
        BY <4>1, <4>2
      <4>4. g[s] = Give(f, Picked(s), u)
        BY <3>3
      <4>5. g[s \ {Picked(s)}] = u
        <5> HIDE DEF g
        <5> QED BY <3>0, <4>3
      <4> HIDE DEF g
      <4> QED BY <3>3, <4>4, <4>5
    <3> QED BY <3>1, <3>2, <3>3
  <2>2. g = [s \in SUBSET T |-> g[s]]
    OBVIOUS
  <2> HIDE DEF g
  <2>3. [s \in SUBSET T |-> g[s]]
           = [s \in SUBSET T |-> IF s = {} THEN u ELSE Give(f, Picked(s), g[s \ {Picked(s)}])]
    BY <2>1
  <2> QED BY <2>2, <2>3 DEF GiveBody
<1>4. h = GiveBody(f, u, T, h)
  <2>1. \E k : k = GiveBody(f, u, T, k)
    BY <1>3
  <2> HIDE DEF g
  <2> QED BY <2>1
<1>5. Given(f, u, T) = h[T]
  BY DEF Given
<1> HIDE DEF h, g
<1>6. \A s \in SUBSET T : h[s] = IF s = {} THEN u ELSE Give(f, Picked(s), h[s \ {Picked(s)}])
  <2> SUFFICES ASSUME NEW s \in SUBSET T
               PROVE  h[s] = IF s = {} THEN u ELSE Give(f, Picked(s), h[s \ {Picked(s)}])
    OBVIOUS
  <2>1. h[s] = GiveBody(f, u, T, h)[s]
    BY <1>4, Zenon
  <2> QED BY <2>1 DEF GiveBody
<1>7. PICK r : r = {q}
  OBVIOUS
<1>8. /\ T \in SUBSET T /\ T # {} /\ T \ {p} = r /\ r \in SUBSET T /\ r # {} /\ Picked(r) = q
      /\ r \ {q} = {} /\ {} \in SUBSET T
  BY <1>1, <1>7 DEF Picked
<1>9. h[{}] = u
  BY <1>6, <1>8
<1>10. h[r] = Give(f, q, u)
  <2>1. h[r] = Give(f, Picked(r), h[r \ {Picked(r)}])
    BY <1>6, <1>8
  <2>2. h[r \ {Picked(r)}] = u
    BY <1>8, <1>9
  <2> QED BY <1>8, <2>1, <2>2
<1>11. h[T] = Give(f, p, Give(f, q, u))
  <2>1. h[T] = Give(f, Picked(T), h[T \ {Picked(T)}])
    BY <1>6, <1>8
  <2>2. h[T \ {Picked(T)}] = h[r]
    BY <1>1, <1>8
  <2> QED BY <1>1, <1>10, <2>1, <2>2
<1> QED BY <1>2, <1>5, <1>11 DEF T

\* A remedy fills one wallet and takes from the other, if at all, what it has.
LEMMA GiveIs ==
  ASSUME NEW f \in BOOLEAN, NEW u \in [Holders -> Nat], NEW n, n.to \in {"A", "B"}, n.missing \in Nat,
         n.donors \subseteq {"A", "B"} \ {n.to}, \A w \in n.donors : u[w] >= n.missing
  PROVE  /\ Give(f, n, u) \in [Holders -> Nat] /\ Give(f, n, u)["H"] = u["H"]
         /\ Give(f, n, u)[n.to] = u[n.to] + n.missing
         /\ \A w \in {"A", "B"} \ {n.to} : \/ Give(f, n, u)[w] = u[w]
                                           \/ w \in n.donors /\ Give(f, n, u)[w] = u[w] - n.missing
<1> PICK v : v = Give(f, n, u)
  OBVIOUS
<1>1. /\ n.to \in Holders /\ "H" \in Holders /\ u[n.to] + n.missing \in Nat /\ n.to # "H"
      /\ \A w \in Holders : w = n.to \/ w = "H" \/ w \in {"A", "B"} \ {n.to}
  BY DEF Holders
<1>2. CASE f \/ n.donors = {}
  <2>1. v = [u EXCEPT ![n.to] = u[n.to] + n.missing]
    BY <1>2 DEF Give
  <2>2. /\ v \in [Holders -> Nat] /\ v[n.to] = u[n.to] + n.missing
        /\ \A w \in Holders \ {n.to} : v[w] = u[w]
    BY <1>1, <2>1
  <2> QED BY <1>1, <2>2 DEF Holders
<1>3. CASE ~ (f \/ n.donors = {})
  <2> DEFINE d == CHOOSE w \in n.donors : TRUE
             m == [from |-> d, to |-> n.to, amount |-> n.missing]
  <2>1. d \in n.donors
    BY <1>3
  <2>2. Give(f, n, u) = Gate!Moved(u, m)
    BY <1>3 DEF Give
  <2> HIDE DEF d
  <2>3. /\ m.from \in Holders /\ m.to \in Holders /\ m.from # m.to /\ m.amount \in Int
        /\ m.from = d /\ m.to = n.to /\ m.amount = n.missing
    BY <2>1 DEF Holders
  <2> HIDE DEF m
  <2>4. u \in [Holders -> Int]
    BY NatIsInt
  <2>5. /\ v \in [Holders -> Int] /\ v[d] = u[d] - n.missing /\ v[n.to] = u[n.to] + n.missing
        /\ \A w \in Holders \ {d, n.to} : v[w] = u[w]
    BY <2>2, <2>3, <2>4, MovedIs
  <2>6. d \in {"A", "B"} /\ d # n.to /\ d # "H" /\ u[d] >= n.missing /\ d \in Holders
    BY <2>1 DEF Holders
  <2>7. \A w \in {"A", "B"} \ {n.to} : w = d
    BY <2>6
  <2>8. v["H"] = u["H"]
    BY <1>1, <2>5, <2>6
  <2>9. u[d] \in Nat /\ u["H"] \in Nat
    BY <1>1, <2>6
  <2>10. v[d] \in Nat /\ v["H"] \in Nat /\ v[n.to] \in Nat
    BY <1>1, <2>5, <2>6, <2>8, <2>9
  <2>11. \A w \in Holders : v[w] \in Nat
    BY <1>1, <2>7, <2>10
  <2>12. v \in [Holders -> Nat]
    BY <2>5, <2>11
  <2> QED BY <2>1, <2>5, <2>7, <2>8, <2>12
<1> QED BY <1>2, <1>3

\* A remedy that is enough makes the run ready.
LEMMA EnoughIsReady ==
  ASSUME NEW f \in BOOLEAN, NEW u \in [Holders -> Nat], NEW n, Enough(u, n)
  PROVE  /\ Give(f, n, u) \in [Holders -> Nat] /\ Give(f, n, u)["H"] = u["H"]
         /\ Gate!Ready(Give(f, n, u))
<1> PICK v : v = Give(f, n, u)
  OBVIOUS
<1>1. /\ n.to \in {"A", "B"} /\ n.missing \in Nat /\ n.donors \subseteq {"A", "B"} \ {n.to}
      /\ u[n.to] + n.missing >= Gate!MINIMUM_START[n.to]
      /\ \A w \in {"A", "B"} \ {n.to} : u[w] >= Gate!MINIMUM_START[w]
      /\ \A w \in n.donors : u[w] - n.missing >= Gate!MINIMUM_START[w]
  BY DEF Enough
<1>2. /\ Gate!MINIMUM_START["A"] \in Nat /\ Gate!MINIMUM_START["B"] \in Nat
      /\ Gate!MINIMUM_START["A"] = FUNDING /\ Gate!MINIMUM_START["B"] = FACE_VALUE - FUNDING
      /\ u["A"] \in Nat /\ u["B"] \in Nat
  BY MinimumIs DEF Holders
<1>3. \A w \in n.donors : u[w] >= n.missing
  BY <1>1, <1>2
<1>4. /\ v \in [Holders -> Nat] /\ v["H"] = u["H"] /\ v[n.to] = u[n.to] + n.missing
      /\ \A w \in {"A", "B"} \ {n.to} : v[w] = u[w] \/ (w \in n.donors /\ v[w] = u[w] - n.missing)
  BY <1>1, <1>3, GiveIs
<1>5. \A w \in {"A", "B"} : v[w] >= Gate!MINIMUM_START[w]
  BY <1>1, <1>4
<1>6. v \in [Holders -> Int] /\ v["H"] >= 0
  BY <1>4, NatIsInt DEF Holders
<1>7. Gate!Ready(v)
  BY <1>2, <1>5, <1>6, ReadyIs
<1> QED BY <1>4, <1>7

\* What the advice is worth: the run is ready, or A is and B is now the one that is short.
Helped(u, v) ==
    \/ Gate!Ready(v)
    \/ /\ u["H"] > 0
       /\ Gate!Min(Gate!Unaffordable(u)) = 1 /\ Gate!Min(Gate!Unaffordable(v)) = 2

LEMMA FilledIsHelped ==
  ASSUME NEW f \in BOOLEAN, NEW u \in [Holders -> Nat], u["H"] > 0, NEW n, Filled(u, n)
  PROVE  /\ Give(f, n, u) \in [Holders -> Nat] /\ Give(f, n, u)["H"] = u["H"]
         /\ Helped(u, Give(f, n, u))
<1> PICK v : v = Give(f, n, u)
  OBVIOUS
<1>1. /\ n.to = "A" /\ u["A"] < FUNDING /\ n.missing = FUNDING - u["A"]
      /\ n.donors \subseteq {"B"} /\ \A w \in n.donors : u[w] >= n.missing
  BY DEF Filled
<1>2. AmountsAre /\ u["A"] \in Nat
  BY Amounts DEF Holders
<1>3. n.missing \in Nat /\ u["A"] + n.missing = FUNDING
  BY <1>1, <1>2 DEF AmountsAre
<1>4. v \in [Holders -> Nat] /\ v["H"] = u["H"] /\ v["A"] = FUNDING
  BY <1>1, <1>3, GiveIs
<1>5. v \in [Holders -> Int] /\ u \in [Holders -> Int] /\ v["H"] >= 0 /\ v["B"] \in Nat
  BY <1>4, NatIsInt DEF Holders
<1>6. Gate!Min(Gate!Unaffordable(u)) = 1
  BY <1>1, <1>5, FirstShort
<1>7. CASE v["B"] >= FACE_VALUE - FUNDING
  <2>1. Gate!Ready(v)
    BY <1>2, <1>4, <1>5, <1>7, ReadyIs DEF AmountsAre
  <2> QED BY <1>4, <2>1 DEF Helped
<1>8. CASE ~ (v["B"] >= FACE_VALUE - FUNDING)
  <2>1. v["A"] >= FUNDING /\ v["B"] + FUNDING < FACE_VALUE
    BY <1>2, <1>4, <1>5, <1>8 DEF AmountsAre
  <2>2. Gate!Min(Gate!Unaffordable(v)) = 2
    BY <1>5, <2>1, FirstShort
  <2> QED BY <1>4, <1>6, <2>2 DEF Helped
<1> QED BY <1>7, <1>8

\* All of the advice carried out is worth that much.
LEMMA AdviceIsEnough ==
  ASSUME Gate!FollowAdvice, usdc \in [Holders -> Nat]
  PROVE  usdc' \in [Holders -> Nat] /\ usdc'["H"] = usdc["H"] /\ Helped(usdc, usdc')
<1>1. ~Gate!Ready(usdc)
  BY DEF Gate!FollowAdvice, Gate!Verdict
<1>f. PICK f \in BOOLEAN : usdc' = Given(f, usdc, Gate!Advice(usdc))
  BY FollowIs
<1>u. PICK u : u = usdc
  OBVIOUS
<1>v. PICK v : v = usdc'
  OBVIOUS
<1>2. v = Given(f, u, Gate!Advice(u)) /\ u \in [Holders -> Nat] /\ ~Gate!Ready(u) /\ u["H"] \in Nat
  BY <1>1, <1>f, <1>u, <1>v DEF Holders
<1>3. ASSUME \E n : Gate!Advice(u) = {n} /\ Enough(u, n)
      PROVE  v \in [Holders -> Nat] /\ v["H"] = u["H"] /\ Helped(u, v)
  <2>1. PICK n : Gate!Advice(u) = {n} /\ Enough(u, n)
    BY <1>3
  <2>2. v = Give(f, n, u)
    BY <1>2, <2>1, GivenOne
  <2>3. /\ Give(f, n, u) \in [Holders -> Nat] /\ Give(f, n, u)["H"] = u["H"]
        /\ Gate!Ready(Give(f, n, u))
    BY <1>2, <2>1, EnoughIsReady
  <2>4. v \in [Holders -> Nat] /\ v["H"] = u["H"] /\ Gate!Ready(v)
    BY <2>2, <2>3, Zenon
  <2> QED BY <2>4 DEF Helped
<1>4. ASSUME NEW a, NEW b, Gate!Advice(u) = {a, b}, a # b,
             a.to = "A", a.missing \in Nat, u["A"] + a.missing = FUNDING, a.donors = {},
             b.to = "B", b.missing \in Nat, u["B"] + b.missing = FACE_VALUE - FUNDING, b.donors = {}
      PROVE  v \in [Holders -> Nat] /\ v["H"] = u["H"] /\ Helped(u, v)
  <2>1. "A" \in Holders /\ "B" \in Holders /\ "H" \in Holders
    BY DEF Holders
  <2>2. PICK s \in Nat : s = u["A"] + a.missing
    BY <1>2, <1>4, <2>1
  <2>3. PICK t \in Nat : t = u["B"] + b.missing
    BY <1>2, <1>4, <2>1
  <2>4. PICK y : y = Give(f, b, u)
    OBVIOUS
  <2>5. PICK x : x = Give(f, a, u)
    OBVIOUS
  <2>6. ASSUME NEW w PROVE /\ Give(f, a, w) = [w EXCEPT !["A"] = w["A"] + a.missing]
                           /\ Give(f, b, w) = [w EXCEPT !["B"] = w["B"] + b.missing]
    BY <1>4 DEF Give
  <2>7. y = [u EXCEPT !["B"] = t]
    BY <2>3, <2>4, <2>6
  <2>8. x = [u EXCEPT !["A"] = s]
    BY <2>2, <2>5, <2>6
  <2>9. y \in [Holders -> Nat] /\ y["A"] = u["A"] /\ y["B"] = t /\ y["H"] = u["H"]
    BY <1>2, <2>1, <2>7
  <2>10. x \in [Holders -> Nat] /\ x["A"] = s /\ x["B"] = u["B"] /\ x["H"] = u["H"]
    BY <1>2, <2>1, <2>8
  <2>11. v = Give(f, a, y) \/ v = Give(f, b, x)
    BY <1>2, <1>4, <2>4, <2>5, GivenTwo
  <2>12. v \in [Holders -> Nat] /\ v["A"] = s /\ v["B"] = t /\ v["H"] = u["H"]
    <3>1. CASE v = Give(f, a, y)
      <4>1. v = [y EXCEPT !["A"] = s]
        BY <2>2, <2>6, <2>9, <3>1
      <4> QED BY <2>1, <2>9, <4>1
    <3>2. CASE v = Give(f, b, x)
      <4>1. v = [x EXCEPT !["B"] = t]
        BY <2>3, <2>6, <2>10, <3>2
      <4> QED BY <2>1, <2>10, <4>1
    <3> QED BY <2>11, <3>1, <3>2
  <2>13. v["A"] >= FUNDING /\ v["B"] >= FACE_VALUE - FUNDING
    BY <1>4, <2>2, <2>3, <2>12, Amounts DEF AmountsAre
  <2>14. v \in [Holders -> Int] /\ v["H"] >= 0
    BY <1>2, <2>12, NatIsInt
  <2> QED BY <1>2, <2>12, <2>13, <2>14, ReadyIs DEF Helped
<1>5. v \in [Holders -> Nat] /\ v["H"] = u["H"] /\ Helped(u, v)
  <2>1. CASE Gate!Partial(u) /\ u["H"] = 0
    BY <1>2, <1>3, <2>1, AdviceIfPartial
  <2>2. CASE ~Gate!Partial(u)
    BY <1>2, <1>3, <1>4, <2>2, AdviceIfNone
  <2>3. CASE u["H"] > 0
    <3>1. PICK n : Gate!Advice(u) = {n} /\ (Enough(u, n) \/ Filled(u, n))
      BY <1>2, <2>3, AdviceIfStray
    <3>2. CASE Enough(u, n)
      BY <1>3, <3>1, <3>2
    <3>3. CASE Filled(u, n)
      <4>1. v = Give(f, n, u)
        BY <1>2, <3>1, GivenOne
      <4> QED BY <1>2, <2>3, <3>3, <4>1, FilledIsHelped
    <3> QED BY <3>1, <3>2, <3>3
  <2> QED BY <1>2, <2>1, <2>2, <2>3
<1> QED BY <1>5, <1>u, <1>v

-----------------------------------------------------------------------------
(* The run. *)

LEMMA StepIs == ASSUME NEW name, NEW n PROVE Gate!Step(name, n).step = name /\ Gate!Step(name, n).run = n
BY DEF Gate!Step

LEMMA StepsAre ==
  ASSUME NEW x \in Steps
  PROVE  x.step \in Gate!Sends /\ x.run \in Nat /\ x = Gate!Step(x.step, x.run)
BY DEF Steps, Gate!Step

LEMMA PaymentsAre ==
  ASSUME NEW e \in Payments
  PROVE  e.step \in Gate!Range(Gate!Kinds) /\ e.run \in Nat /\ e = Gate!Step(e.step, e.run)
BY DEF Payments, Gate!Step

LEMMA AdvanceIs ==
  ASSUME run \in RunType, NEW r, r = Gate!Advance
  PROVE  /\ r \in RunType /\ r.number = run.number /\ r.origin = run.origin
         /\ r.clean = run.clean /\ r.moved = run.moved /\ ~r.sent
         /\ r.next = IF run.next = 15 THEN 0 ELSE run.next + 1
         /\ r.result = IF run.next = 15 THEN "done" ELSE run.result
<1>0. run.next \in 0..15 /\ run.result \in Results
  BY DEF RunType
<1>1. PICK n \in 0..15 : n = (run.next + 1) % (Len(Gate!Order) + 1) /\ n = IF run.next = 15 THEN 0 ELSE run.next + 1
  <2>1. CASE run.next = 15
    BY <2>1, OrderIs
  <2>2. CASE run.next # 15
    <3>1. run.next + 1 \in 0..15
      BY <1>0, <2>2
    <3>2. (run.next + 1) % 16 = run.next + 1
      BY <3>1
    <3> QED BY <2>2, <3>1, <3>2, OrderIs
  <2> QED BY <2>1, <2>2
<1>2. PICK q \in Results : q = IF run.next = 15 THEN "done" ELSE run.result
  BY <1>0 DEF Results
<1>3. r = [run EXCEPT !.next = n, !.sent = FALSE, !.result = q]
  BY <1>1, <1>2, OrderIs DEF Gate!Advance
<1>4. r = [number |-> run.number, next |-> n, sent |-> FALSE, result |-> q, origin |-> run.origin,
           clean |-> run.clean, moved |-> run.moved]
  BY <1>3 DEF RunType
<1>5. r \in RunType
  BY <1>4 DEF RunType
<1> QED BY <1>1, <1>2, <1>4, <1>5

LEMMA StopIs ==
  ASSUME run \in RunType, NEW result \in Results, NEW r, r = Gate!Stop(result)
  PROVE  /\ r \in RunType /\ r.number = run.number /\ r.origin = run.origin
         /\ r.clean = run.clean /\ r.moved = run.moved /\ ~r.sent
         /\ r.next = 0 /\ r.result = result
<1> PICK zero \in 0..15 : zero = 0
  OBVIOUS
<1>1. r = [number |-> run.number, next |-> zero, sent |-> FALSE, result |-> result, origin |-> run.origin,
           clean |-> run.clean, moved |-> run.moved]
  BY DEF Gate!Stop, RunType
<1>2. r \in RunType
  BY <1>1 DEF RunType
<1> QED BY <1>1, <1>2

\* A run whose next step is unchanged except that it was sent.
LEMMA SentIs ==
  ASSUME run \in RunType, NEW r, r = [run EXCEPT !.sent = TRUE]
  PROVE  /\ r \in RunType /\ r.number = run.number /\ r.origin = run.origin
         /\ r.clean = run.clean /\ r.moved = run.moved /\ r.sent
         /\ r.next = run.next /\ r.result = run.result
<1>1. r = [number |-> run.number, next |-> run.next, sent |-> TRUE, result |-> run.result,
           origin |-> run.origin, clean |-> run.clean, moved |-> run.moved]
  BY DEF RunType
<1>2. r \in RunType
  BY <1>1 DEF RunType
<1> QED BY <1>1, <1>2

\* Which payments are made by the time the run is at a step.
LEMMA PlacesPaid ==
  ASSUME NEW n \in 1..15
  PROVE  /\ PaidBefore(n) \in 0..3
         /\ n \notin {2, 5, 9} => PaidBefore(n + 1) = PaidBefore(n) /\ Gate!Order[n] \notin Gate!Range(Gate!Kinds)
         /\ n \in {2, 5, 9} => /\ PaidBefore(n) \in 0..2 /\ PaidBefore(n + 1) = PaidBefore(n) + 1
                               /\ Gate!Order[n] = Gate!Kinds[PaidBefore(n) + 1] /\ Gate!Order[n] \in Gate!Range(Gate!Kinds)
<1>1. \/ n = 1 \/ n = 2 \/ n = 3 \/ n = 4 \/ n = 5
      \/ n = 6 \/ n = 7 \/ n = 8 \/ n = 9 \/ n = 10 \/ n = 11
      \/ n = 12 \/ n = 13 \/ n = 14 \/ n = 15
  OBVIOUS
<1>2. Gate!Kinds[1] = "fund" /\ Gate!Kinds[2] = "repay" /\ Gate!Kinds[3] = "double" /\ Gate!Range(Gate!Kinds) = {"fund", "repay", "double"}
  BY KindsAre
<1> QED BY <1>1, <1>2, OrderIs DEF PaidBefore

LEMMA RunIs ==
  ASSUME Shape
  PROVE  /\ run \in RunType /\ run.number \in Nat /\ run.next \in 0..15 /\ run.sent \in BOOLEAN
         /\ run.clean \in BOOLEAN /\ run.moved \in BOOLEAN /\ run.result \in Results
         /\ run.origin \in [Holders -> Nat] /\ run.origin["A"] \in Nat /\ run.origin["B"] \in Nat
         /\ usdc["A"] \in Nat /\ usdc["B"] \in Nat /\ usdc["H"] \in Nat
BY DEF Shape, RunType, Holders

\* Nothing that Shape speaks of changes but the run and what is on its way.
LEMMA ShapeStays ==
  ASSUME Shape, UNCHANGED <<usdc, allowance, helper, events, attested, files, index, recorded, check>>,
         run' \in RunType, usdc["H"] = run'.origin["H"], run'.number >= run.number, run'.next >= 12 => Gate!Captured' \subseteq attested,
         pool' \subseteq Steps, \A x \in pool' : x.run <= run'.number
  PROVE  Shape'
<1>1. run.number \in Nat /\ run'.number \in Nat
  BY DEF Shape, RunType
<1>2. \A e \in events : e.run <= run'.number
  <2> SUFFICES ASSUME NEW e \in events PROVE e.run <= run'.number
    OBVIOUS
  <2>1. e.run \in Nat /\ e.run <= run.number
    BY PaymentsAre DEF Shape
  <2> QED BY <1>1, <2>1
<1>3. (run'.next >= 12 => Gate!Captured' \subseteq attested') /\ events' = events
  OBVIOUS
<1> QED BY <1>2, <1>3 DEF Shape

\* The same, when what is on its way stays too.
LEMMA ShapeOfRun ==
  ASSUME Shape, UNCHANGED <<usdc, allowance, helper, pool, events, attested, files, index, recorded, check>>,
         run' \in RunType, usdc["H"] = run'.origin["H"], run'.number >= run.number, run'.next >= 12 => Gate!Captured' \subseteq attested
  PROVE  Shape'
<1>1. run.number \in Nat /\ run'.number \in Nat
  BY DEF Shape, RunType
<1>2. \A x \in pool : x.run <= run'.number
  <2> SUFFICES ASSUME NEW x \in pool PROVE x.run <= run'.number
    OBVIOUS
  <2>1. x.run \in Nat /\ x.run <= run.number
    BY StepsAre DEF Shape
  <2> QED BY <1>1, <2>1
<1>3. pool' = pool /\ pool \subseteq Steps
  BY DEF Shape
<1> QED BY <1>2, <1>3, ShapeStays

LEMMA CheckingOfRun ==
  ASSUME Checking, run.next # 0, UNCHANGED check
  PROVE  Checking'
BY DEF Checking

\* What a clean run has come to.
LEMMA Progress ==
  ASSUME Shape, Account, run.clean, run.next # 0
  PROVE  /\ pool \subseteq {Current} /\ (~run.sent => pool = {})
         /\ run.sent /\ pool = {} => Paid(PaidBefore(run.next + 1))
         /\ ~ (run.sent /\ pool = {}) => Paid(PaidBefore(run.next))
<1>1. PICK m \in 0..3 : Standing(m)
  BY DEF Account
<1>2. run.next \in 1..15
  BY RunIs
<1>3. PaidBefore(run.next) \in 0..3
  BY <1>2, PlacesPaid
<1>4. CASE ~run.sent
  BY <1>1, <1>4 DEF Standing
<1>5. CASE run.sent
  <2>1. /\ pool \subseteq {Current} /\ Paid(m)
        /\ m = PaidBefore(run.next) + (IF pool = {} /\ run.next \in {2, 5, 9} THEN 1 ELSE 0)
    BY <1>1, <1>5 DEF Standing
  <2>2. CASE pool = {} /\ run.next \in {2, 5, 9}
    BY <1>2, <1>5, <2>1, <2>2, PlacesPaid
  <2>3. CASE pool = {} /\ run.next \notin {2, 5, 9}
    <3>1. m = PaidBefore(run.next)
      BY <1>3, <2>1, <2>3
    <3> QED BY <1>2, <1>5, <2>1, <2>3, <3>1, PlacesPaid
  <2>4. CASE pool # {}
    <3>1. m = PaidBefore(run.next)
      BY <1>3, <2>1, <2>4
    <3> QED BY <1>5, <2>1, <2>4, <3>1
  <2> QED BY <2>2, <2>3, <2>4
<1> QED BY <1>4, <1>5

LEMMA PaidStays ==
  ASSUME NEW m, Paid(m), UNCHANGED <<usdc, events>>, run'.number = run.number, run'.origin = run.origin
  PROVE  Paid(m)'
<1>1. Own' = Own /\ FirstPaid(m)' = FirstPaid(m)
  BY DEF Own, FirstPaid
<1>2. InA(m)' = InA(m) /\ InB(m)' = InB(m)
  BY DEF InA, InB
<1> QED BY <1>1, <1>2 DEF Paid

\* A clean run goes on to its next step.
LEMMA AdvancedAccount ==
  ASSUME Shape, Account, run.next # 0, run' = Gate!Advance, UNCHANGED <<usdc, allowance, pool, events>>,
         run.clean => pool = {} /\ Paid(PaidBefore(run.next + 1)),
         run.clean /\ run.next = 1 => allowance["A"] >= FUNDING,
         run.clean /\ run.next = 4 => allowance["B"] >= FACE_VALUE,
         run.clean /\ run.next = 8 => allowance["H"] >= Gate!PARTIALS
  PROVE  Account'
<1>r. PICK r : r = run'
  OBVIOUS
<1>1. /\ r.number = run.number /\ r.origin = run.origin
      /\ r.clean = run.clean /\ r.moved = run.moved /\ ~r.sent
      /\ r.next = IF run.next = 15 THEN 0 ELSE run.next + 1
      /\ r.result = IF run.next = 15 THEN "done" ELSE run.result
  <2>1. run \in RunType /\ r = Gate!Advance
    BY <1>r, RunIs
  <2> QED BY <2>1, AdvanceIs
<1>2. run.next \in 1..15
  BY RunIs
<1>3. run.number # 0 /\ ~run.moved /\ run.result = "running"
  BY DEF Account
<1>4. r.next # 0 => r.number # 0 /\ ~r.moved /\ r.result = "running"
  BY <1>1, <1>3
<1>5. r.origin["A"] >= FUNDING /\ r.origin["B"] >= FACE_VALUE - FUNDING
  BY <1>1, <1>3 DEF Account
<1>6. r.clean /\ ~r.moved => \E m \in 0..3 : Standing(m)'
  <2> SUFFICES ASSUME r.clean PROVE \E m \in 0..3 : Standing(m)'
    OBVIOUS
  <2>1. PICK m : m = PaidBefore(run.next + 1)
    OBVIOUS
  <2>2. m \in 0..3
    BY <2>1 DEF PaidBefore
  <2>3. Paid(m)'
    <3>1. Paid(m)
      BY <1>1, <2>1
    <3> QED BY <1>1, <1>r, <3>1, PaidStays
  <2>4. pool' = {} /\ ~run'.sent /\ (run'.next # 0 => m = PaidBefore(run'.next))
    BY <1>1, <1>2, <1>r, <2>1
  <2>5. Standing(m)'
    BY <2>3, <2>4 DEF Standing
  <2> QED BY <2>2, <2>5
<1>7. r.clean /\ r.next # 0 => Approved'
  <2> SUFFICES ASSUME r.clean, r.next # 0 PROVE Approved'
    OBVIOUS
  <2>1. r.next = run.next + 1 /\ ~run'.sent /\ run'.next = r.next
    BY <1>1, <1>r
  <2>2. /\ r.next = 2 => run.next = 1
        /\ r.next = 5 => run.next = 4
        /\ r.next = 9 => run.next = 8
    BY <1>2, <2>1
  <2> QED BY <1>1, <2>1, <2>2 DEF Approved
<1>8. r.clean => r.result \notin {"unpaid", "failed"}
  BY <1>1, <1>3
<1> QED BY <1>1, <1>4, <1>5, <1>6, <1>7, <1>8, <1>r DEF Account

\* A run stops, and what it sent last may still be on its way.
LEMMA StoppedAccount ==
  ASSUME Shape, Account, run.next # 0, NEW result \in Results, run' = Gate!Stop(result), UNCHANGED <<usdc, events>>,
         run.clean => result \notin {"unpaid", "failed"},
         run.clean => pool' \subseteq {Current} /\ (pool' # {} => Paid(PaidBefore(run.next)))
  PROVE  Account'
<1>r. PICK r : r = run'
  OBVIOUS
<1>1. /\ r.number = run.number /\ r.origin = run.origin
      /\ r.clean = run.clean /\ r.moved = run.moved /\ ~r.sent /\ r.next = 0 /\ r.result = result
  <2>1. run \in RunType /\ r = Gate!Stop(result)
    BY <1>r, RunIs
  <2> QED BY <2>1, StopIs
<1>2. run.next \in 1..15
  BY RunIs
<1>3. run.number # 0 /\ ~run.moved
  BY DEF Account
<1>4. r.origin["A"] >= FUNDING /\ r.origin["B"] >= FACE_VALUE - FUNDING
  BY <1>1, <1>3 DEF Account
<1>5. r.clean /\ ~r.moved => \E m \in 0..3 : Standing(m)'
  <2> SUFFICES ASSUME r.clean PROVE \E m \in 0..3 : Standing(m)'
    OBVIOUS
  <2>1. CASE pool' = {}
    <3>1. PICK m \in 0..3 : Standing(m)
      BY <1>1, <1>3 DEF Account
    <3>2. Paid(m)'
      BY <1>1, <1>r, <3>1, PaidStays DEF Standing
    <3>3. Standing(m)'
      BY <1>1, <1>r, <2>1, <3>2 DEF Standing
    <3> QED BY <3>3
  <2>2. CASE pool' # {}
    <3>1. PICK m : m = PaidBefore(run.next)
      OBVIOUS
    <3>2. m \in 0..3 /\ Paid(m)
      BY <1>1, <1>2, <2>2, <3>1, PlacesPaid
    <3>3. Paid(m)'
      BY <1>1, <1>r, <3>2, PaidStays
    <3>4. PICK c : c = Current
      OBVIOUS
    <3>5. pool' \subseteq {c} /\ c.run = run'.number /\ c.step = Gate!Order[run.next]
      BY <1>1, <1>r, <3>4, StepIs DEF Current
    <3>6. c.step \in Gate!Range(Gate!Kinds) => m < 3 /\ c.step = Gate!Kinds[m + 1]
      BY <1>2, <3>1, <3>5, PlacesPaid
    <3>7. Standing(m)'
      BY <1>1, <1>r, <3>3, <3>5, <3>6 DEF Standing
    <3> QED BY <3>2, <3>7
  <2> QED BY <2>1, <2>2
<1>6. r.clean => r.result \notin {"unpaid", "failed"}
  BY <1>1
<1> QED BY <1>1, <1>3, <1>4, <1>5, <1>6, <1>r DEF Account

\* The payment a clean run is at can be made: the projection is what happens.
LEMMA CleanIsCovered ==
  ASSUME Shape, Account, run.clean, run.next \in {2, 5, 9}, run.sent => pool # {}
  PROVE  Gate!Covered(Gate!Order[run.next])
<1>1. Paid(PaidBefore(run.next))
  BY Progress
<1>2. /\ run.origin["A"] \in Nat /\ run.origin["B"] \in Nat /\ usdc["A"] \in Nat /\ usdc["B"] \in Nat
      /\ run.origin["A"] >= FUNDING /\ run.origin["B"] >= FACE_VALUE - FUNDING
  BY RunIs DEF Account
<1>3. AmountsAre /\ Approved
  BY Amounts DEF Account
<1>4. CASE run.next = 2
  <2>1. usdc["A"] = run.origin["A"] - 0 + 0 - 0
    BY <1>1, <1>4 DEF Paid, PaidBefore, InA
  <2>2. usdc["A"] >= FUNDING /\ allowance["A"] >= FUNDING
    BY <1>2, <1>3, <1>4, <2>1 DEF Approved, AmountsAre
  <2> QED BY <1>4, <2>2, OrderIs, PaymentIs DEF Gate!Covered
<1>5. CASE run.next = 5
  <2>1. usdc["B"] = run.origin["B"] + FUNDING - 0 + 0
    BY <1>1, <1>5 DEF Paid, PaidBefore, InB
  <2>2. usdc["B"] >= FACE_VALUE /\ allowance["B"] >= FACE_VALUE
    BY <1>2, <1>3, <1>5, <2>1 DEF Approved, AmountsAre
  <2> QED BY <1>5, <2>2, OrderIs, PaymentIs DEF Gate!Covered
<1>6. CASE run.next = 9
  <2>1. usdc["A"] = run.origin["A"] - FUNDING + FACE_VALUE - 0
    BY <1>1, <1>6 DEF Paid, PaidBefore, InA
  <2>2. usdc["A"] >= Gate!PARTIALS /\ allowance["H"] >= Gate!PARTIALS
    BY <1>2, <1>3, <1>6, <2>1 DEF Approved, AmountsAre
  <2> QED BY <1>6, <2>2, OrderIs, PaymentIs DEF Gate!Covered
<1> QED BY <1>4, <1>5, <1>6

\* Between two payments of a clean run the next wallet has what it will need.
LEMMA CleanHasEnough ==
  ASSUME Shape, Account, run.clean
  PROVE  /\ run.next = 3 => usdc["B"] >= FACE_VALUE
         /\ run.next = 6 => usdc["A"] >= Gate!PARTIALS
<1>0. run.next \in {3, 6} => Paid(PaidBefore(run.next)) /\ ~run.sent
  BY Progress DEF Account
<1>2. /\ run.origin["A"] \in Nat /\ run.origin["B"] \in Nat /\ usdc["A"] \in Nat /\ usdc["B"] \in Nat
      /\ run.next # 0 => run.origin["A"] >= FUNDING /\ run.origin["B"] >= FACE_VALUE - FUNDING
  BY RunIs DEF Account
<1>3. AmountsAre
  BY Amounts
<1>4. CASE run.next = 3
  <2>1. usdc["B"] = run.origin["B"] + FUNDING - 0 + 0
    BY <1>0, <1>4 DEF Paid, PaidBefore, InB
  <2> QED BY <1>2, <1>3, <1>4, <2>1 DEF AmountsAre
<1>5. CASE run.next = 6
  <2>1. usdc["A"] = run.origin["A"] - FUNDING + FACE_VALUE - 0
    BY <1>0, <1>5 DEF Paid, PaidBefore, InA
  <2> QED BY <1>2, <1>3, <1>5, <2>1 DEF AmountsAre
<1> QED BY <1>4, <1>5

-----------------------------------------------------------------------------
(* Each step. *)

Unmoved == UNCHANGED <<usdc, allowance, helper, pool, events, attested>>
Kept == UNCHANGED <<files, index, recorded, check>>

LEMMA StartStep ==
  ASSUME GateInv, Gate!StartCapture PROVE GateInv'
<1>1. Shape /\ Checking /\ Account
  BY DEF GateInv
<1>2. /\ run.next = 0 /\ check.left = {} /\ Gate!Verdict(usdc) = "ready" /\ Unmoved /\ Kept
      /\ run' = [number |-> run.number + 1, next |-> 1, sent |-> FALSE, result |-> "running",
                 origin |-> usdc, clean |-> pool = {}, moved |-> FALSE]
  BY DEF Gate!StartCapture, Gate!Idle, Gate!chainVars, Unmoved, Kept
<1>3. PICK clean \in BOOLEAN : clean <=> pool = {}
  OBVIOUS
<1>4. PICK one \in 0..15 : one = 1
  OBVIOUS
<1>5. run.number + 1 \in Nat /\ usdc \in [Holders -> Nat] /\ "running" \in Results
  BY <1>1, RunIs DEF Shape, Results
<1>6. run' = [number |-> run.number + 1, next |-> one, sent |-> FALSE, result |-> "running",
              origin |-> usdc, clean |-> clean, moved |-> FALSE]
  BY <1>2, <1>3, <1>4
<1>7. run' \in RunType
  BY <1>5, <1>6 DEF RunType
<1>8. /\ run'.number = run.number + 1 /\ run'.next = 1 /\ ~run'.sent /\ run'.result = "running"
      /\ run'.origin = usdc /\ (run'.clean <=> pool = {}) /\ ~run'.moved
  BY <1>3, <1>4, <1>6
<1>9. run'.number >= run.number /\ run.number \in Nat
  BY <1>1, <1>8, RunIs
<1>10. Shape'
  BY <1>1, <1>2, <1>7, <1>8, <1>9, ShapeOfRun DEF Unmoved, Kept
<1>11. Checking'
  BY <1>2 DEF Checking, Kept
<1>12. usdc["A"] >= FUNDING /\ usdc["B"] >= FACE_VALUE - FUNDING
  <2>1. Gate!Ready(usdc)
    BY <1>2 DEF Gate!Verdict
  <2>2. usdc \in [Holders -> Int] /\ usdc["H"] >= 0
    BY <1>1, <1>5, NatIsInt, RunIs
  <2> QED BY <2>1, <2>2, ReadyIs
<1>13. run'.clean => Standing(0)'
  <2> SUFFICES ASSUME run'.clean PROVE Standing(0)'
    OBVIOUS
  <2>1. Own' = {}
    <3> SUFFICES ASSUME NEW e \in events, e.run = run'.number PROVE FALSE
      BY <1>2 DEF Own, Unmoved
    <3>1. e.run \in Nat /\ e.run <= run.number
      BY <1>1, PaymentsAre DEF Shape
    <3> QED BY <1>8, <1>9, <3>1
  <2>2. FirstPaid(0)' = {}
    BY DEF FirstPaid
  <2>3. usdc'["A"] = InA(0)' /\ usdc'["B"] = InB(0)'
    <3>1. usdc["A"] \in Nat /\ usdc["B"] \in Nat /\ usdc' = usdc
      BY <1>1, <1>2, RunIs DEF Unmoved
    <3> QED BY <1>8, <3>1 DEF InA, InB
  <2>4. pool' = {} /\ PaidBefore(run'.next) = 0
    BY <1>2, <1>8 DEF PaidBefore, Unmoved
  <2> QED BY <1>8, <2>1, <2>2, <2>3, <2>4 DEF Standing, Paid
<1>14. Account'
  <2>1. run'.clean /\ ~run'.moved => \E m \in 0..3 : Standing(m)'
    BY <1>13
  <2>2. run'.number # 0
    BY <1>1, <1>8, <1>9, RunIs
  <2>3. Approved'
    BY <1>8 DEF Approved
  <2> QED BY <1>8, <1>12, <2>1, <2>2, <2>3 DEF Account
<1> QED BY <1>10, <1>11, <1>14 DEF GateInv

\* A step of a run that changes nothing on the chain.
LEMMA AdvanceStep ==
  ASSUME GateInv, run.next # 0, run' = Gate!Advance, Unmoved, Kept,
         run.clean => pool = {} /\ Paid(PaidBefore(run.next + 1)),
         run.clean /\ run.next = 1 => allowance["A"] >= FUNDING,
         run.clean /\ run.next = 4 => allowance["B"] >= FACE_VALUE,
         run.clean /\ run.next = 8 => allowance["H"] >= Gate!PARTIALS,
         run.next = 11 => Gate!Captured \subseteq attested
  PROVE  GateInv'
<1>1. Shape /\ Checking /\ Account
  BY DEF GateInv
<1>2. /\ run' \in RunType /\ run'.number = run.number /\ run'.origin = run.origin
      /\ run'.next = IF run.next = 15 THEN 0 ELSE run.next + 1
  <2>1. PICK r : r = run'
    OBVIOUS
  <2>2. run \in RunType /\ r = Gate!Advance
    BY <1>1, <2>1, RunIs
  <2> QED BY <2>1, <2>2, AdvanceIs
<1>3. run.number \in Nat /\ run.next \in 0..15 /\ run'.number >= run.number /\ usdc["H"] = run'.origin["H"]
  BY <1>1, <1>2, RunIs DEF Shape
<1>4. run'.next >= 12 => Gate!Captured' \subseteq attested
  <2>1. run'.next >= 12 => run.next = 11 \/ run.next >= 12
    BY <1>2, <1>3
  <2>2. Gate!Captured' = Gate!Captured
    BY <1>2 DEF Gate!Captured
  <2> QED BY <1>1, <2>1, <2>2 DEF Shape
<1>5. Shape'
  BY <1>1, <1>2, <1>3, <1>4, ShapeOfRun DEF Unmoved, Kept
<1>6. Checking'
  BY <1>1, CheckingOfRun DEF Kept
<1>7. Account'
  BY <1>1, AdvancedAccount DEF Unmoved
<1> QED BY <1>5, <1>6, <1>7 DEF GateInv

LEMMA StopStep ==
  ASSUME GateInv, run.next # 0, NEW result \in Results, run' = Gate!Stop(result),
         UNCHANGED <<usdc, allowance, helper, events, attested>>, Kept,
         run.clean => result \notin {"unpaid", "failed"},
         pool' = pool \/ (~run.sent /\ run.next \in {1, 2, 4, 5, 7, 8, 9} /\ pool' \in {pool, pool \cup {Current}})
  PROVE  GateInv'
<1>1. Shape /\ Checking /\ Account
  BY DEF GateInv
<1>2. run' \in RunType /\ run'.number = run.number /\ run'.origin = run.origin /\ run'.next = 0
  <2>1. PICK r : r = run'
    OBVIOUS
  <2>2. run \in RunType /\ r = Gate!Stop(result)
    BY <1>1, <2>1, RunIs
  <2> QED BY <2>1, <2>2, StopIs
<1>3. run.number \in Nat /\ run.next \in 0..15 /\ run'.number >= run.number /\ usdc["H"] = run'.origin["H"]
  BY <1>1, <1>2, RunIs DEF Shape
<1>4. pool' \subseteq Steps /\ \A x \in pool' : x.run <= run'.number
  <2>1. \A x \in pool : x.run <= run'.number /\ x \in Steps
    BY <1>1, <1>2 DEF Shape
  <2>2. pool' # pool => Current \in Steps /\ Current.run <= run'.number
    <3> SUFFICES ASSUME pool' # pool PROVE Current \in Steps /\ Current.run <= run'.number
      OBVIOUS
    <3>1. Gate!Order[run.next] \in Gate!Sends
      <4>1. Gate!Doing \in Gate!Sends /\ Gate!Doing = Gate!Order[run.next]
        BY <1>3, DoingIs
      <4> QED BY <4>1
    <3>2. Current \in Steps
      BY <1>3, <3>1 DEF Current, Steps
    <3> QED BY <1>2, <1>3, <3>2, StepIs DEF Current
  <2> QED BY <2>1, <2>2
<1>5. Shape'
  BY <1>1, <1>2, <1>3, <1>4, ShapeStays DEF Kept
<1>6. Checking'
  BY <1>1, CheckingOfRun DEF Kept
<1>7. run.clean => pool' \subseteq {Current} /\ (pool' # {} => Paid(PaidBefore(run.next)))
  BY <1>1, Progress
<1>8. Account'
  BY <1>1, <1>7, StoppedAccount
<1> QED BY <1>5, <1>6, <1>8 DEF GateInv

LEMMA SkipStep == ASSUME GateInv, Gate!Skip PROVE GateInv'
<1>1. Shape /\ Account
  BY DEF GateInv
<1>2. ~run.sent /\ Gate!Unneeded(Gate!Doing) /\ run' = Gate!Advance /\ Unmoved /\ Kept
  BY DEF Gate!Skip, Gate!chainVars, Unmoved, Kept
<1>3. run.next \in 0..15
  BY <1>1, RunIs
<1>4. run.next \in {1, 4, 7, 8}
  BY <1>2, <1>3, DoingIs DEF Gate!Unneeded
<1>5. /\ run.next = 1 => allowance["A"] >= FUNDING
      /\ run.next = 4 => allowance["B"] >= FACE_VALUE
      /\ run.next = 8 => allowance["H"] >= Gate!PARTIALS
  BY <1>2, <1>3, DoingIs DEF Gate!Unneeded
<1>6. PaidBefore(run.next + 1) = PaidBefore(run.next)
  BY <1>4, PlacesPaid
<1>7. run.clean => pool = {} /\ Paid(PaidBefore(run.next + 1))
  BY <1>1, <1>2, <1>4, <1>6, Progress
<1> QED BY <1>2, <1>4, <1>5, <1>7, AdvanceStep

LEMMA MinedStep == ASSUME GateInv, Gate!Confirm PROVE GateInv'
<1>1. Shape /\ Account
  BY DEF GateInv
<1>2. /\ run.sent /\ Gate!Step(Gate!Doing, run.number) \notin pool /\ Unmoved /\ Kept
      /\ run' = IF Gate!Doing \in Gate!Range(Gate!Kinds) /\ Gate!Step(Gate!Doing, run.number) \notin events
                THEN Gate!Stop("failed") ELSE Gate!Advance
  BY DEF Gate!Confirm, Gate!chainVars, Unmoved, Kept
<1>3. run.next \in 0..15 /\ run.next \in {1, 2, 4, 5, 7, 8, 9}
  BY <1>1, <1>2, RunIs DEF Account
<1>4. Gate!Doing = Gate!Order[run.next]
  BY <1>3, DoingIs
<1>5. run.clean => pool = {} /\ Paid(PaidBefore(run.next + 1))
  BY <1>1, <1>2, <1>3, <1>4, Progress DEF Current
<1>6. run.clean /\ Gate!Doing \in Gate!Range(Gate!Kinds) => Gate!Step(Gate!Doing, run.number) \in events
  <2> SUFFICES ASSUME run.clean, Gate!Doing \in Gate!Range(Gate!Kinds) PROVE Gate!Step(Gate!Doing, run.number) \in events
    OBVIOUS
  <2>1. run.next \in {2, 5, 9} /\ run.next \in 1..15
    BY <1>3, DoingIs
  <2>2. /\ PaidBefore(run.next + 1) = PaidBefore(run.next) + 1 /\ PaidBefore(run.next) \in 0..2
        /\ Gate!Doing = Gate!Kinds[PaidBefore(run.next) + 1]
    BY <1>4, <2>1, PlacesPaid
  <2>3. PICK m \in 1..3 : m = PaidBefore(run.next + 1)
    BY <2>2
  <2>4. Gate!Doing = Gate!Kinds[m] /\ m \in 1..m /\ Own = FirstPaid(m)
    BY <1>5, <2>2, <2>3 DEF Paid
  <2>5. Gate!Step(Gate!Doing, run.number) \in FirstPaid(m)
    BY <2>4 DEF FirstPaid
  <2> QED BY <2>4, <2>5 DEF Own
<1>7. CASE run' = Gate!Advance
  <2>1. /\ run.clean /\ run.next = 1 => allowance["A"] >= FUNDING
        /\ run.clean /\ run.next = 4 => allowance["B"] >= FACE_VALUE
        /\ run.clean /\ run.next = 8 => allowance["H"] >= Gate!PARTIALS
    BY <1>1, <1>2, <1>5 DEF Account, Approved
  <2> QED BY <1>2, <1>3, <1>5, <1>7, <2>1, AdvanceStep
<1>8. CASE run' = Gate!Stop("failed") /\ ~run.clean
  <2>1. PICK result \in Results : result = "failed"
    BY DEF Results
  <2> QED BY <1>2, <1>3, <1>8, <2>1, StopStep DEF Unmoved
<1> QED BY <1>2, <1>6, <1>7, <1>8

LEMMA RequireStep == ASSUME GateInv, Gate!Require PROVE GateInv'
<1>1. Shape /\ Account
  BY DEF GateInv
<1>2. /\ Gate!Doing \in {"requireA", "requireB"} /\ Unmoved /\ Kept
      /\ run' = IF (Gate!Doing = "requireB" /\ usdc["B"] >= FACE_VALUE)
                   \/ (Gate!Doing = "requireA" /\ usdc["A"] >= Gate!PARTIALS)
                THEN Gate!Advance ELSE Gate!Stop("unpaid")
  BY DEF Gate!Require, Gate!chainVars, Unmoved, Kept
<1>3. run.next \in 0..15
  BY <1>1, RunIs
<1>4. run.next \in {3, 6} /\ (Gate!Doing = "requireB" <=> run.next = 3) /\ (Gate!Doing = "requireA" <=> run.next = 6)
  BY <1>2, <1>3, DoingIs
<1>5. ~run.sent /\ PaidBefore(run.next + 1) = PaidBefore(run.next)
  BY <1>1, <1>4, PlacesPaid DEF Account
<1>6. run.clean => pool = {} /\ Paid(PaidBefore(run.next + 1))
  BY <1>1, <1>4, <1>5, Progress
<1>7. CASE run' = Gate!Advance
  BY <1>2, <1>4, <1>6, <1>7, AdvanceStep
<1>8. CASE run' = Gate!Stop("unpaid") /\ ~run.clean
  <2>1. PICK result \in Results : result = "unpaid"
    BY DEF Results
  <2>2. UNCHANGED <<usdc, allowance, helper, events, attested>> /\ pool' = pool /\ Kept
    BY <1>2 DEF Unmoved
  <2>3. run.next # 0 /\ run' = Gate!Stop(result) /\ (run.clean => result \notin {"unpaid", "failed"})
    BY <1>4, <1>8, <2>1
  <2>4. pool' = pool \/ (~run.sent /\ run.next \in {1, 2, 4, 5, 7, 8, 9} /\ pool' \in {pool, pool \cup {Current}})
    BY <2>2
  <2> QED BY <2>2, <2>3, <2>4, StopStep
<1>9. run.clean => run' = Gate!Advance
  BY <1>1, <1>2, <1>4, CleanHasEnough
<1> QED BY <1>2, <1>7, <1>8, <1>9

LEMMA WaitStep == ASSUME GateInv, Gate!Wait PROVE GateInv'
<1>1. Shape /\ Account
  BY DEF GateInv
<1>2. /\ Gate!Doing = "wait" /\ Unmoved /\ Kept
      /\ (Gate!Captured \subseteq attested /\ run' = Gate!Advance) \/ run' = Gate!Stop("waited")
  BY DEF Gate!Wait, Gate!chainVars, Unmoved, Kept
<1>3. run.next = 11
  BY <1>1, <1>2, RunIs, DoingIs
<1>4. ~run.sent /\ PaidBefore(run.next + 1) = PaidBefore(run.next)
  BY <1>1, <1>3, PlacesPaid DEF Account
<1>5. run.clean => pool = {} /\ Paid(PaidBefore(run.next + 1))
  BY <1>1, <1>3, <1>4, Progress
<1>6. CASE Gate!Captured \subseteq attested /\ run' = Gate!Advance
  BY <1>2, <1>3, <1>5, <1>6, AdvanceStep
<1>7. CASE run' = Gate!Stop("waited")
  <2>1. PICK result \in Results : result = "waited"
    BY DEF Results
  <2>2. UNCHANGED <<usdc, allowance, helper, events, attested>> /\ pool' = pool /\ Kept
    BY <1>2 DEF Unmoved
  <2>3. run.next # 0 /\ run' = Gate!Stop(result) /\ (run.clean => result \notin {"unpaid", "failed"})
    BY <1>3, <1>7, <2>1
  <2>4. pool' = pool \/ (~run.sent /\ run.next \in {1, 2, 4, 5, 7, 8, 9} /\ pool' \in {pool, pool \cup {Current}})
    BY <2>2
  <2> QED BY <2>2, <2>3, <2>4, StopStep
<1> QED BY <1>2, <1>6, <1>7

LEMMA RememberStep == ASSUME GateInv, Gate!Record PROVE GateInv'
<1>1. Shape /\ Checking /\ Account
  BY DEF GateInv
<1>2. /\ Gate!Doing = "record" /\ run' = Gate!Advance /\ Kept
      /\ helper' = [helper EXCEPT !.known = helper.deployed]
      /\ UNCHANGED <<usdc, allowance, pool, events, attested>>
  BY DEF Gate!Record, Kept
<1>3. run.next = 10
  BY <1>1, <1>2, RunIs, DoingIs
<1>4. /\ run' \in RunType /\ run'.number = run.number /\ run'.origin = run.origin /\ run'.next = 11
  <2>1. PICK r : r = run'
    OBVIOUS
  <2>2. run \in RunType /\ r = Gate!Advance
    BY <1>1, <1>2, <2>1, RunIs
  <2> QED BY <1>3, <2>1, <2>2, AdvanceIs
<1>5. helper' \in [deployed : Nat, known : Nat] /\ helper'.known <= helper'.deployed
  <2>1. helper' = [deployed |-> helper.deployed, known |-> helper.deployed] /\ helper.deployed \in Nat
    BY <1>1, <1>2 DEF Shape
  <2> QED BY <2>1
<1>6. Shape'
  BY <1>1, <1>2, <1>4, <1>5 DEF Shape, Kept
<1>7. Checking'
  BY <1>1, <1>2, <1>3, CheckingOfRun DEF Kept
<1>8. ~run.sent /\ PaidBefore(run.next + 1) = PaidBefore(run.next)
  BY <1>1, <1>3, PlacesPaid DEF Account
<1>9. run.clean => pool = {} /\ Paid(PaidBefore(run.next + 1))
  BY <1>1, <1>3, <1>8, Progress
<1>10. Account'
  BY <1>1, <1>2, <1>3, <1>9, AdvancedAccount
<1> QED BY <1>6, <1>7, <1>10 DEF GateInv

LEMMA SaveStep == ASSUME GateInv, Gate!Save PROVE GateInv'
<1>1. Shape /\ Checking /\ Account
  BY DEF GateInv
<1>2. /\ \/ /\ Gate!Doing \in {"fund.json", "repay.json", "double.json"}
            /\ files' = [files EXCEPT ![Gate!FileOf(Gate!Doing)] = Gate!Step(Gate!FileOf(Gate!Doing), run.number)]
            /\ UNCHANGED index
         \/ Gate!Doing = "index" /\ index' = Gate!Captured /\ UNCHANGED files
      /\ run' = Gate!Advance /\ Unmoved /\ UNCHANGED <<recorded, check>>
  BY DEF Gate!Save, Gate!chainVars, Unmoved
<1>3. run.next \in 12..15
  BY <1>1, <1>2, RunIs, DoingIs
<1>4. /\ run' \in RunType /\ run'.number = run.number /\ run'.origin = run.origin
  <2>1. PICK r : r = run'
    OBVIOUS
  <2>2. run \in RunType /\ r = Gate!Advance
    BY <1>1, <1>2, <2>1, RunIs
  <2> QED BY <2>1, <2>2, AdvanceIs
<1>5. Gate!Captured \subseteq attested /\ Gate!Captured' = Gate!Captured
  BY <1>1, <1>3, <1>4 DEF Shape, Gate!Captured
<1>6. files' \in [Gate!Range(Gate!Kinds) -> attested \cup {Gate!NoFile}] /\ index' \subseteq attested
  <2>1. CASE Gate!Doing = "index" /\ index' = Gate!Captured /\ UNCHANGED files
    BY <1>1, <1>5, <2>1 DEF Shape
  <2>2. CASE files' = [files EXCEPT ![Gate!FileOf(Gate!Doing)] = Gate!Step(Gate!FileOf(Gate!Doing), run.number)] /\ UNCHANGED index
    <3>1. PICK kind : kind = Gate!FileOf(Gate!Doing)
      OBVIOUS
    <3>2. kind \in Gate!Range(Gate!Kinds)
      BY <3>1, KindsAre DEF Gate!FileOf
    <3>3. PICK e : e = Gate!Step(kind, run.number)
      OBVIOUS
    <3>4. e \in attested
      BY <1>5, <3>2, <3>3 DEF Gate!Captured
    <3>5. files' = [files EXCEPT ![kind] = e]
      BY <2>2, <3>1, <3>3
    <3> QED BY <1>1, <2>2, <3>2, <3>4, <3>5 DEF Shape
  <2> QED BY <1>2, <2>1, <2>2
<1>7. Shape'
  BY <1>1, <1>2, <1>4, <1>5, <1>6 DEF Shape, Unmoved
<1>8. Checking'
  BY <1>1, <1>2, <1>3, CheckingOfRun
<1>9. ~run.sent /\ PaidBefore(run.next + 1) = PaidBefore(run.next)
  BY <1>1, <1>3, PlacesPaid DEF Account
<1>10. run.clean => pool = {} /\ Paid(PaidBefore(run.next + 1))
  BY <1>1, <1>3, <1>9, Progress
<1>11. Account'
  BY <1>1, <1>2, <1>3, <1>10, AdvancedAccount DEF Unmoved
<1> QED BY <1>7, <1>8, <1>11 DEF GateInv

LEMMA KilledStep == ASSUME GateInv, Gate!Crash PROVE GateInv'
<1>1. Shape /\ Checking /\ Account
  BY DEF GateInv
<1>2. Unmoved /\ UNCHANGED <<files, index, recorded>>
  BY DEF Gate!Crash, Gate!chainVars, Unmoved
<1>3. CASE run.next # 0 /\ run' = Gate!Stop("crash") /\ UNCHANGED check
  <2>1. PICK result \in Results : result = "crash"
    BY DEF Results
  <2>2. /\ UNCHANGED <<usdc, allowance, helper, events, attested>> /\ Kept
        /\ pool' = pool \/ (~run.sent /\ run.next \in {1, 2, 4, 5, 7, 8, 9} /\ pool' \in {pool, pool \cup {Current}})
    BY <1>2, <1>3 DEF Unmoved, Kept
  <2> QED BY <1>3, <2>1, <2>2, StopStep
<1>4. CASE check' = [check EXCEPT !.left = {}, !.result = "crash"] /\ UNCHANGED run
  <2>1. PICK none : none = {}
    OBVIOUS
  <2>2. check' = [left |-> none, failures |-> check.failures, before |-> check.before, result |-> "crash"]
    BY <1>1, <1>4, <2>1 DEF Shape, CheckType
  <2>3. check' \in CheckType /\ check'.left = {}
    BY <1>1, <2>1, <2>2 DEF Shape, CheckType
  <2>4. Gate!Captured' = Gate!Captured
    BY <1>4 DEF Gate!Captured
  <2>5. Shape'
    BY <1>1, <1>2, <1>4, <2>3, <2>4 DEF Shape, Unmoved
  <2>6. Account'
    BY <1>1, <1>2, <1>4 DEF Account, Standing, Paid, Own, FirstPaid, InA, InB, Approved, Current, Unmoved
  <2> QED BY <2>3, <2>5, <2>6 DEF GateInv, Checking
<1> QED BY <1>3, <1>4 DEF Gate!Crash, Gate!Idle

LEMMA SendStep == ASSUME GateInv, Gate!Send PROVE GateInv'
<1>1. Shape /\ Checking /\ Account
  BY DEF GateInv
<1>x. PICK x : x = Current
  OBVIOUS
<1>2. run.next \in 0..15 /\ Gate!Doing \in Gate!Sends /\ ~run.sent /\ ~Gate!Unneeded(Gate!Doing) /\ Kept
  BY <1>1, RunIs DEF Gate!Send, Kept
<1>3. run.next \in {1, 2, 4, 5, 7, 8, 9} /\ Gate!Doing = Gate!Order[run.next]
  BY <1>2, DoingIs
<1>4. UNCHANGED <<usdc, allowance, helper, events, attested>>
  BY DEF Gate!Send
<1>5. \/ Gate!Doing \in Gate!Range(Gate!Kinds) /\ ~Gate!Covered(Gate!Doing) /\ run' = Gate!Stop("unpaid") /\ UNCHANGED pool
      \/ pool' = pool \cup {x} /\ run' = [run EXCEPT !.sent = TRUE]
      \/ pool' \in {pool, pool \cup {x}} /\ run' = Gate!Stop("lost")
  BY <1>3, <1>x DEF Gate!Send, Current
<1>6. CASE Gate!Doing \in Gate!Range(Gate!Kinds) /\ ~Gate!Covered(Gate!Doing) /\ run' = Gate!Stop("unpaid") /\ UNCHANGED pool
  <2>1. ~run.clean
    <3> SUFFICES ASSUME run.clean PROVE FALSE
      OBVIOUS
    <3>1. run.next \in {2, 5, 9}
      BY <1>2, <1>6, DoingIs
    <3> QED BY <1>1, <1>2, <1>3, <1>6, <3>1, CleanIsCovered
  <2>2. PICK result \in Results : result = "unpaid"
    BY DEF Results
  <2>3. /\ run.next # 0 /\ (run.clean => result \notin {"unpaid", "failed"}) /\ run' = Gate!Stop(result)
        /\ pool' = pool \/ (~run.sent /\ run.next \in {1, 2, 4, 5, 7, 8, 9} /\ pool' \in {pool, pool \cup {Current}})
    BY <1>3, <1>6, <2>1, <2>2
  <2> QED BY <1>2, <1>4, <2>3, StopStep
<1>7. CASE pool' \in {pool, pool \cup {x}} /\ run' = Gate!Stop("lost")
  <2>2. PICK result \in Results : result = "lost"
    BY DEF Results
  <2>3. /\ run.next # 0 /\ (run.clean => result \notin {"unpaid", "failed"}) /\ run' = Gate!Stop(result)
        /\ pool' = pool \/ (~run.sent /\ run.next \in {1, 2, 4, 5, 7, 8, 9} /\ pool' \in {pool, pool \cup {Current}})
    BY <1>2, <1>3, <1>7, <1>x, <2>2
  <2> QED BY <1>2, <1>4, <2>3, StopStep
<1>8. CASE pool' = pool \cup {x} /\ run' = [run EXCEPT !.sent = TRUE]
  <2>1. /\ run' \in RunType /\ run'.number = run.number /\ run'.origin = run.origin
        /\ run'.clean = run.clean /\ run'.moved = run.moved /\ run'.sent
        /\ run'.next = run.next /\ run'.result = run.result
    <3>1. PICK r : r = run'
      OBVIOUS
    <3>2. run \in RunType /\ r = [run EXCEPT !.sent = TRUE]
      BY <1>1, <1>8, <3>1, RunIs
    <3> QED BY <3>1, <3>2, SentIs
  <2>2. x \in Steps /\ x.run = run.number /\ run.number \in Nat
    <3>1. x = Gate!Step(Gate!Doing, run.number) /\ run.number \in Nat
      BY <1>1, <1>3, <1>x, RunIs DEF Current
    <3> QED BY <1>2, <3>1, StepIs DEF Steps
  <2>3. Shape'
    <3>1. pool' \subseteq Steps /\ \A y \in pool' : y.run <= run'.number
      BY <1>1, <1>8, <2>1, <2>2 DEF Shape
    <3>2. (run'.next >= 12 => Gate!Captured' \subseteq attested) /\ usdc["H"] = run'.origin["H"]
      BY <1>1, <1>3, <2>1 DEF Shape
    <3> QED BY <1>1, <1>2, <1>4, <2>1, <2>2, <3>1, <3>2, ShapeStays DEF Kept
  <2>4. Checking'
    BY <1>1, <1>2, <1>3, CheckingOfRun DEF Kept
  <2>5. run'.clean => \E m \in 0..3 : Standing(m)'
    <3> SUFFICES ASSUME run.clean PROVE \E m \in 0..3 : Standing(m)'
      BY <2>1
    <3>1. PICK m : m = PaidBefore(run.next)
      OBVIOUS
    <3>2. m \in 0..3
      BY <1>3, <3>1, PlacesPaid
    <3>3. pool = {} /\ Paid(m)
      BY <1>1, <1>2, <1>3, <3>1, Progress
    <3>4. Paid(m)'
      BY <1>4, <2>1, <3>3, PaidStays
    <3>5. Current' = x
      BY <1>x, <2>1 DEF Current
    <3>6. pool' = {x}
      BY <1>8, <3>3
    <3>7. m = PaidBefore(run'.next) + 0
      BY <2>1, <3>1, <3>2
    <3>8. Standing(m)'
      BY <1>3, <2>1, <3>2, <3>4, <3>5, <3>6, <3>7 DEF Standing
    <3> QED BY <3>2, <3>8
  <2>6. run'.clean => Approved'
    <3> SUFFICES ASSUME run.clean PROVE Approved'
      BY <2>1
    <3>1. Approved /\ pool' # {}
      BY <1>1, <1>3, <1>8 DEF Account
    <3> QED BY <1>2, <1>4, <2>1, <3>1 DEF Approved
  <2>7. Account'
    BY <1>1, <1>3, <2>1, <2>5, <2>6 DEF Account
  <2> QED BY <2>3, <2>4, <2>7 DEF GateInv
<1> QED BY <1>5, <1>6, <1>7, <1>8

\* What a transaction that is mined does.
Pays(x) == x.step \in Gate!Range(Gate!Kinds) /\ Gate!Covered(x.step)

LEMMA MinedIs ==
  ASSUME Shape, NEW x \in pool, Gate!Mine(x)
  PROVE  /\ pool' = pool \ {x} /\ UNCHANGED <<attested, files, index, recorded, run, check>>
         /\ usdc' = IF Pays(x) THEN Gate!Moved(usdc, Gate!Payment(x.step)) ELSE usdc
         /\ events' = IF Pays(x) THEN events \cup {x} ELSE events
         /\ helper' \in [deployed : Nat, known : Nat] /\ helper'.known <= helper'.deployed
<1>1. /\ pool' = pool \ {x} /\ UNCHANGED <<attested, files, index, recorded, run, check>>
      /\ usdc' = IF Pays(x) THEN Gate!Moved(usdc, Gate!Payment(x.step)) ELSE usdc
      /\ events' = IF Pays(x) THEN events \cup {x} ELSE events
      /\ helper' = IF x.step = "deploy" THEN [helper EXCEPT !.deployed = @ + 1] ELSE helper
  BY DEF Gate!Mine, Pays
<1>2. helper' \in [deployed : Nat, known : Nat] /\ helper'.known <= helper'.deployed
  <2>1. helper = [deployed |-> helper.deployed, known |-> helper.known]
        /\ helper.deployed \in Nat /\ helper.known \in Nat /\ helper.known <= helper.deployed
    BY DEF Shape
  <2>2. CASE x.step = "deploy"
    <3>1. helper' = [deployed |-> helper.deployed + 1, known |-> helper.known]
      BY <1>1, <2>1, <2>2
    <3>2. helper.deployed + 1 \in Nat /\ helper.known <= helper.deployed + 1
      BY <2>1
    <3> QED BY <2>1, <3>1, <3>2
  <2>3. CASE x.step # "deploy"
    BY <1>1, <2>1, <2>3
  <2> QED BY <2>2, <2>3
<1> QED BY <1>1, <1>2

LEMMA MinedAllowance ==
  ASSUME Shape, NEW x \in pool, Gate!Mine(x)
  PROVE  /\ allowance' \in [Holders -> Nat]
         /\ x.step = "approveA" => allowance'["A"] = FUNDING
         /\ x.step = "approveB" => allowance'["B"] = FACE_VALUE
         /\ x.step = "approveHelper" => allowance'["H"] = Gate!PARTIALS
<1>1. x.step \in Gate!Sends /\ allowance \in [Holders -> Nat]
  BY StepsAre DEF Shape
<1>2. "A" \in Holders /\ "B" \in Holders /\ "H" \in Holders
  BY DEF Holders
<1>3. FUNDING \in Nat /\ FACE_VALUE \in Nat /\ Gate!PARTIALS \in Nat
  BY Amounts DEF AmountsAre
<1>4. allowance' = CASE Pays(x) -> [allowance EXCEPT ![Gate!Payment(x.step).by] = @ - Gate!Payment(x.step).amount]
              [] x.step = "approveA" -> [allowance EXCEPT !["A"] = FUNDING]
              [] x.step = "approveB" -> [allowance EXCEPT !["B"] = FACE_VALUE]
              [] x.step = "approveHelper" -> [allowance EXCEPT !["H"] = Gate!PARTIALS]
              [] x.step = "deploy" -> [allowance EXCEPT !["H"] = 0]
              [] OTHER -> allowance
  BY DEF Gate!Mine, Pays
<1>5. Pays(x) => x.step \in {"fund", "repay", "double"}
  BY KindsAre DEF Pays
<1>6. CASE Pays(x)
  <2>1. allowance' = [allowance EXCEPT ![Gate!Payment(x.step).by] = @ - Gate!Payment(x.step).amount]
    BY <1>4, <1>5, <1>6
  <2>2. PICK w : w = Gate!Payment(x.step).by
    OBVIOUS
  <2>3. PICK a : a = allowance[w] - Gate!Payment(x.step).amount
    OBVIOUS
  <2>4. w \in Holders /\ Gate!Payment(x.step).amount \in Nat
    BY <1>2, <1>3, <1>5, <1>6, <2>2, PaymentIs
  <2>5. a \in Nat
    BY <1>1, <1>6, <2>2, <2>3, <2>4 DEF Pays, Gate!Covered
  <2>6. allowance' = [allowance EXCEPT ![w] = a]
    BY <2>1, <2>2, <2>3
  <2> QED BY <1>1, <1>5, <1>6, <2>4, <2>5, <2>6
<1>7. CASE ~Pays(x) /\ x.step = "approveA"
  <2>1. allowance' = [allowance EXCEPT !["A"] = FUNDING]
    BY <1>4, <1>7
  <2> QED BY <1>1, <1>2, <1>3, <1>7, <2>1
<1>8. CASE ~Pays(x) /\ x.step = "approveB"
  <2>1. allowance' = [allowance EXCEPT !["B"] = FACE_VALUE]
    BY <1>4, <1>8
  <2> QED BY <1>1, <1>2, <1>3, <1>8, <2>1
<1>9. CASE ~Pays(x) /\ x.step = "approveHelper"
  <2>1. allowance' = [allowance EXCEPT !["H"] = Gate!PARTIALS]
    BY <1>4, <1>9
  <2> QED BY <1>1, <1>2, <1>3, <1>9, <2>1
<1>10. CASE ~Pays(x) /\ x.step = "deploy"
  <2>1. PICK zero \in Nat : zero = 0
    OBVIOUS
  <2>2. allowance' = [allowance EXCEPT !["H"] = zero]
    BY <1>4, <1>10, <2>1
  <2> QED BY <1>1, <1>2, <1>10, <2>2
<1>11. CASE ~Pays(x) /\ x.step \notin {"approveA", "approveB", "approveHelper", "deploy"}
  <2>1. allowance' = allowance
    BY <1>4, <1>11
  <2> QED BY <1>1, <1>11, <2>1
<1> QED BY <1>6, <1>7, <1>8, <1>9, <1>10, <1>11

LEMMA MinedShape ==
  ASSUME Shape, NEW x \in pool, Gate!Mine(x)
  PROVE  Shape'
<1>1. /\ pool' = pool \ {x} /\ UNCHANGED <<attested, files, index, recorded, run, check>>
      /\ usdc' = IF Pays(x) THEN Gate!Moved(usdc, Gate!Payment(x.step)) ELSE usdc
      /\ events' = IF Pays(x) THEN events \cup {x} ELSE events
      /\ helper' \in [deployed : Nat, known : Nat] /\ helper'.known <= helper'.deployed
  BY MinedIs
<1>2. allowance' \in [Holders -> Nat]
  BY MinedAllowance
<1>3. usdc' \in [Holders -> Nat] /\ usdc'["H"] = usdc["H"]
  <2>1. CASE ~Pays(x)
    BY <1>1, <2>1 DEF Shape
  <2>2. CASE Pays(x)
    <3>1. PICK m : m = Gate!Payment(x.step)
      OBVIOUS
    <3>2. x.step \in {"fund", "repay", "double"}
      BY <2>2, KindsAre DEF Pays
    <3>3. /\ m.from \in Holders /\ m.to \in Holders /\ m.from # m.to /\ m.from # "H" /\ m.to # "H"
          /\ m.amount \in Nat
      BY <3>1, <3>2, PaymentIs, Amounts DEF Holders, AmountsAre
    <3>4. usdc \in [Holders -> Nat] /\ usdc \in [Holders -> Int] /\ usdc[m.from] >= m.amount
      BY <2>2, <3>1, NatIsInt DEF Shape, Pays, Gate!Covered
    <3>u. PICK u : u = usdc
      OBVIOUS
    <3>v. PICK v : v = usdc'
      OBVIOUS
    <3>5. v = Gate!Moved(u, m) /\ u \in [Holders -> Int]
      BY <1>1, <2>2, <3>1, <3>4, <3>u, <3>v
    <3>6. /\ v \in [Holders -> Int] /\ v[m.from] = u[m.from] - m.amount /\ v[m.to] = u[m.to] + m.amount
          /\ \A w \in Holders \ {m.from, m.to} : v[w] = u[w]
      BY <3>3, <3>5, MovedIs
    <3>7. u \in [Holders -> Nat] /\ u[m.from] >= m.amount
      BY <3>4, <3>u
    <3>8. \A w \in Holders : v[w] \in Nat
      <4> SUFFICES ASSUME NEW w \in Holders PROVE v[w] \in Nat
        OBVIOUS
      <4>1. u[w] \in Nat /\ u[m.from] \in Nat /\ u[m.to] \in Nat
        BY <3>3, <3>7
      <4>2. CASE w = m.from
        BY <3>3, <3>6, <3>7, <4>1, <4>2
      <4>3. CASE w = m.to
        BY <3>3, <3>6, <4>1, <4>3
      <4> QED BY <3>6, <4>1, <4>2, <4>3
    <3>9. v["H"] = u["H"]
      BY <3>3, <3>6 DEF Holders
    <3> QED BY <3>6, <3>8, <3>9, <3>u, <3>v
  <2> QED BY <2>1, <2>2
<1>4. events' \subseteq Payments /\ \A e \in events' : e.run <= run.number
  <2>1. Pays(x) => x \in Payments
    BY StepsAre DEF Pays, Payments, Shape
  <2> QED BY <1>1, <2>1 DEF Shape
<1>5. pool' \subseteq Steps /\ \A y \in pool' : y.run <= run.number
  BY <1>1 DEF Shape
<1>6. attested' \subseteq events' /\ Gate!Captured' = Gate!Captured
  BY <1>1 DEF Shape, Gate!Captured
<1>7. run' = run
  BY <1>1
<1> QED BY <1>1, <1>2, <1>3, <1>4, <1>5, <1>6, <1>7 DEF Shape

\* The next payment of a clean run is the next stage of its account.
LEMMA NextPaid ==
  ASSUME Shape, NEW x \in pool, Gate!Mine(x), NEW m \in 0..2, Paid(m), Pays(x),
         x.run = run.number, x.step = Gate!Kinds[m + 1]
  PROVE  Paid(m + 1)'
<1>1. /\ run' = run /\ events' = events \cup {x} /\ usdc' = Gate!Moved(usdc, Gate!Payment(x.step))
  BY MinedIs
<1>2. x = Gate!Step(x.step, x.run)
  BY StepsAre DEF Shape
<1>n. PICK n : n = m + 1
  OBVIOUS
<1>3. n \in 1..3 /\ m = n - 1 /\ \A k \in 1..n : k \in 1..m \/ k = n
  BY <1>n
<1>4. Own' = Own \cup {x}
  BY <1>1 DEF Own
<1>5. FirstPaid(n)' = FirstPaid(m) \cup {x}
  <2>1. x = Gate!Step(Gate!Kinds[n], run.number)
    BY <1>2, <1>n
  <2>2. FirstPaid(n)' = {Gate!Step(Gate!Kinds[k], run.number) : k \in 1..n}
    BY <1>1 DEF FirstPaid
  <2>3. \A k \in 1..m : k \in 1..n
    BY <1>3
  <2>4. n \in 1..n
    BY <1>3
  <2> QED BY <1>3, <2>1, <2>2, <2>3, <2>4 DEF FirstPaid
<1>6. usdc'["A"] = InA(n)' /\ usdc'["B"] = InB(n)'
  <2>1. PICK p : p = Gate!Payment(x.step)
    OBVIOUS
  <2>2. /\ n = 1 => p = [from |-> "A", to |-> "B", amount |-> FUNDING, by |-> "A"]
        /\ n = 2 => p = [from |-> "B", to |-> "A", amount |-> FACE_VALUE, by |-> "B"]
        /\ n = 3 => p = [from |-> "A", to |-> "B", amount |-> Gate!PARTIALS, by |-> "H"]
    BY <1>n, <2>1, KindsAre, PaymentIs
  <2>3. AmountsAre
    BY Amounts
  <2>4. n = 1 \/ n = 2 \/ n = 3
    BY <1>3
  <2>5. p.from \in Holders /\ p.to \in Holders /\ p.from # p.to /\ p.amount \in Int
    BY <2>2, <2>3, <2>4 DEF Holders, AmountsAre
  <2>u. PICK u : u = usdc
    OBVIOUS
  <2>v. PICK v : v = usdc'
    OBVIOUS
  <2>6. v = Gate!Moved(u, p) /\ u \in [Holders -> Int]
    BY <1>1, <2>1, <2>u, <2>v, NatIsInt DEF Shape
  <2>7. v[p.from] = u[p.from] - p.amount /\ v[p.to] = u[p.to] + p.amount
    BY <2>5, <2>6, MovedIs
  <2>8. /\ run.origin["A"] \in Nat /\ run.origin["B"] \in Nat /\ run'.origin = run.origin
        /\ u["A"] = InA(m) /\ u["B"] = InB(m) /\ InA(m) \in Int /\ InB(m) \in Int
    <3>1. run.origin["A"] \in Nat /\ run.origin["B"] \in Nat
      BY RunIs
    <3> QED BY <1>1, <2>3, <2>u, <3>1 DEF Paid, InA, InB, AmountsAre
  <2>9. CASE n = 1
    <3>1. m = 0
      BY <1>3, <2>9
    <3> QED BY <2>2, <2>3, <2>7, <2>8, <2>9, <2>v, <3>1 DEF InA, InB, AmountsAre
  <2>10. CASE n = 2
    <3>1. m = 1
      BY <1>3, <2>10
    <3> QED BY <2>2, <2>3, <2>7, <2>8, <2>10, <2>v, <3>1 DEF InA, InB, AmountsAre
  <2>11. CASE n = 3
    <3>1. m = 2
      BY <1>3, <2>11
    <3>2. /\ u["A"] = run.origin["A"] - FUNDING + FACE_VALUE - 0
          /\ u["B"] = run.origin["B"] + FUNDING - FACE_VALUE + 0
      BY <2>8, <3>1 DEF InA, InB
    <3>3. /\ InA(n)' = run.origin["A"] - FUNDING + FACE_VALUE - Gate!PARTIALS
          /\ InB(n)' = run.origin["B"] + FUNDING - FACE_VALUE + Gate!PARTIALS
      BY <2>8, <2>11 DEF InA, InB
    <3>4. v["A"] = u["A"] - Gate!PARTIALS /\ v["B"] = u["B"] + Gate!PARTIALS
      BY <2>2, <2>7, <2>11
    <3> QED BY <2>3, <2>8, <2>v, <3>2, <3>3, <3>4 DEF AmountsAre
  <2> QED BY <2>4, <2>9, <2>10, <2>11
<1>7. Paid(n)'
  BY <1>4, <1>5, <1>6 DEF Paid
<1> QED BY <1>7, <1>n

\* What a transaction that is mined makes of a clean run.
LEMMA MinedAccount ==
  ASSUME GateInv, NEW x \in pool, Gate!Mine(x)
  PROVE  Account'
<1>1. Shape /\ Account
  BY DEF GateInv
<1>2. /\ pool' = pool \ {x} /\ run' = run
      /\ usdc' = IF Pays(x) THEN Gate!Moved(usdc, Gate!Payment(x.step)) ELSE usdc
      /\ events' = IF Pays(x) THEN events \cup {x} ELSE events
  BY <1>1, MinedIs
<1>3. /\ run.next \in 0..15 /\ run.number \in Nat
      /\ x.step \in Gate!Sends /\ x.run \in Nat /\ x = Gate!Step(x.step, x.run)
  BY <1>1, StepsAre, RunIs DEF Shape
<1>4. ASSUME run.clean, run.next # 0
      PROVE  /\ run.sent /\ pool = {x} /\ pool' = {} /\ x = Current
             /\ x.step = Gate!Order[run.next] /\ x.run = run.number
             /\ run.next \in {1, 2, 4, 5, 7, 8, 9} /\ Paid(PaidBefore(run.next))
             /\ Pays(x) <=> run.next \in {2, 5, 9}
  <2>1. pool \subseteq {Current} /\ run.sent /\ Paid(PaidBefore(run.next))
    BY <1>1, <1>4, Progress
  <2>2. x = Current /\ pool = {x} /\ pool' = {}
    BY <1>2, <2>1
  <2>3. x.step = Gate!Order[run.next] /\ x.run = run.number
    BY <2>2, StepIs DEF Current
  <2>4. run.next \in {1, 2, 4, 5, 7, 8, 9}
    BY <1>1, <2>1 DEF Account
  <2>5. run.next \in {2, 5, 9} => Gate!Covered(Gate!Order[run.next])
    BY <1>1, <1>4, CleanIsCovered
  <2>6. Pays(x) <=> run.next \in {2, 5, 9}
    BY <2>3, <2>4, <2>5, PlacesPaid DEF Pays
  <2> QED BY <2>1, <2>2, <2>3, <2>4, <2>6
<1>5. ASSUME NEW m, Paid(m), ~Pays(x) PROVE Paid(m)'
  BY <1>2, <1>5, PaidStays
<1>6. run.clean /\ ~run.moved => \E m \in 0..3 : Standing(m)'
  <2> SUFFICES ASSUME run.clean, ~run.moved PROVE \E m \in 0..3 : Standing(m)'
    OBVIOUS
  <2>1. CASE run.next = 0
    <3>1. PICK m \in 0..3 : Standing(m)
      BY <1>1 DEF Account
    <3>2. /\ Paid(m) /\ x.run = run.number
          /\ x.step \in Gate!Range(Gate!Kinds) => m < 3 /\ x.step = Gate!Kinds[m + 1]
          /\ \A y \in pool : y = x
      BY <2>1, <3>1 DEF Standing
    <3>3. pool' = {}
      BY <1>2, <3>2
    <3>4. CASE Pays(x)
      <4>1. m \in 0..2 /\ x.step = Gate!Kinds[m + 1]
        BY <3>2, <3>4 DEF Pays
      <4>2. Paid(m + 1)'
        BY <1>1, <3>2, <3>4, <4>1, NextPaid
      <4>3. PICK n \in 0..3 : n = m + 1
        BY <4>1
      <4>4. Standing(n)'
        BY <1>2, <2>1, <3>3, <4>2, <4>3 DEF Standing
      <4> QED BY <4>4
    <3>5. CASE ~Pays(x)
      <4>1. Paid(m)'
        BY <1>5, <3>2, <3>5
      <4>2. Standing(m)'
        BY <1>2, <2>1, <3>3, <4>1 DEF Standing
      <4> QED BY <4>2
    <3> QED BY <3>4, <3>5
  <2>2. CASE run.next # 0
    <3>1. PICK m : m = PaidBefore(run.next)
      OBVIOUS
    <3>2. m \in 0..3 /\ Paid(m) /\ run.next \in 1..15
      BY <1>3, <1>4, <2>2, <3>1, PlacesPaid
    <3>3. CASE run.next \in {2, 5, 9}
      <4>1. m \in 0..2 /\ x.step = Gate!Kinds[m + 1] /\ x.run = run.number /\ Pays(x)
        BY <1>4, <2>2, <3>1, <3>2, <3>3, PlacesPaid
      <4>2. Paid(m + 1)'
        BY <1>1, <3>2, <4>1, NextPaid
      <4>3. PICK n \in 0..3 : n = m + 1
        BY <4>1
      <4>4. run'.sent /\ pool' = {} /\ n = PaidBefore(run'.next) + 1 /\ run'.next \in {2, 5, 9}
        BY <1>2, <1>4, <2>2, <3>1, <3>3, <4>3
      <4>5. Standing(n)'
        BY <4>2, <4>3, <4>4 DEF Standing
      <4> QED BY <4>5
    <3>4. CASE run.next \notin {2, 5, 9}
      <4>1. Paid(m)'
        BY <1>4, <1>5, <2>2, <3>2, <3>4
      <4>2. run'.sent /\ pool' = {} /\ m = PaidBefore(run'.next) + 0 /\ run'.next \notin {0, 2, 5, 9}
        BY <1>2, <1>4, <2>2, <3>1, <3>2, <3>4
      <4>3. Standing(m)'
        BY <4>1, <4>2 DEF Standing
      <4> QED BY <3>2, <4>3
    <3> QED BY <3>3, <3>4
  <2> QED BY <2>1, <2>2
<1>7. run.clean /\ run.next # 0 => Approved'
  <2> SUFFICES ASSUME run.clean, run.next # 0 PROVE Approved'
    OBVIOUS
  <2>1. run'.sent /\ pool' = {} /\ run'.next = run.next /\ x.step = Gate!Order[run.next]
    BY <1>2, <1>4
  <2>2. /\ run.next = 1 => allowance'["A"] = FUNDING
        /\ run.next = 4 => allowance'["B"] = FACE_VALUE
        /\ run.next = 8 => allowance'["H"] = Gate!PARTIALS
    BY <1>1, <2>1, OrderIs, MinedAllowance
  <2>3. AmountsAre
    BY Amounts
  <2> QED BY <2>1, <2>2, <2>3 DEF Approved, AmountsAre
<1> QED BY <1>1, <1>2, <1>6, <1>7 DEF Account

LEMMA MineStep == ASSUME GateInv, NEW x \in pool, Gate!Mine(x) PROVE GateInv'
<1>1. Shape /\ Checking
  BY DEF GateInv
<1>2. UNCHANGED <<files, recorded, run, check>>
  BY <1>1, MinedIs
<1>3. Checking'
  BY <1>1, <1>2 DEF Checking
<1> QED BY <1>1, <1>3, MinedShape, MinedAccount DEF GateInv

\* The account speaks of nothing else.
LEMMA AccountStays ==
  ASSUME Account, UNCHANGED <<usdc, allowance, pool, events, run>>
  PROVE  Account'
<1>1. ASSUME NEW m, Standing(m) PROVE Standing(m)'
  <2>1. Paid(m)'
    BY <1>1, PaidStays DEF Standing
  <2>2. Current' = Current
    BY DEF Current
  <2> QED BY <1>1, <2>1, <2>2 DEF Standing
<1>2. Approved' <=> Approved
  BY DEF Approved
<1> QED BY <1>1, <1>2 DEF Account

LEMMA AttestStep == ASSUME GateInv, NEW e \in events \ attested, Gate!Attest(e) PROVE GateInv'
<1>1. Shape /\ Checking /\ Account
  BY DEF GateInv
<1>2. attested' = attested \cup {e}
      /\ UNCHANGED <<usdc, allowance, helper, pool, events, files, index, recorded, run, check>>
  BY DEF Gate!Attest
<1>3. Gate!Captured' = Gate!Captured
  BY <1>2 DEF Gate!Captured
<1>4. files \in [Gate!Range(Gate!Kinds) -> attested' \cup {Gate!NoFile}]
  <2>1. files \in [Gate!Range(Gate!Kinds) -> attested \cup {Gate!NoFile}]
    BY <1>1 DEF Shape
  <2> QED BY <1>2, <2>1
<1>5. Shape'
  BY <1>1, <1>2, <1>3, <1>4 DEF Shape
<1>6. Checking'
  BY <1>1, <1>2 DEF Checking
<1> QED BY <1>1, <1>2, <1>5, <1>6, AccountStays DEF GateInv

LEMMA FollowStep == ASSUME GateInv, Gate!FollowAdvice PROVE GateInv' /\ Gate!AdvisedIsReady
<1>1. Shape /\ Checking /\ Account
  BY DEF GateInv
<1>2. /\ run.next = 0 /\ check.left = {} /\ run' = [run EXCEPT !.moved = TRUE]
      /\ UNCHANGED <<allowance, helper, pool, events, attested, files, index, recorded, check>>
  BY DEF Gate!FollowAdvice, Gate!Idle
<1>3. usdc' \in [Holders -> Nat] /\ usdc'["H"] = usdc["H"] /\ Helped(usdc, usdc')
  BY <1>1, AdviceIsEnough DEF Shape
<1>4. run' = [number |-> run.number, next |-> run.next, sent |-> run.sent, result |-> run.result,
              origin |-> run.origin, clean |-> run.clean, moved |-> TRUE]
  BY <1>1, <1>2 DEF Shape, RunType
<1>5. run' \in RunType
  BY <1>1, <1>4 DEF Shape, RunType
<1>6. Gate!Captured' = Gate!Captured
  BY <1>4 DEF Gate!Captured
<1>7. Shape'
  BY <1>1, <1>2, <1>3, <1>4, <1>5, <1>6 DEF Shape
<1>8. Checking'
  BY <1>2 DEF Checking
<1>9. Account'
  BY <1>1, <1>2, <1>4 DEF Account
<1>10. Gate!AdvisedIsReady
  BY <1>3 DEF Gate!AdvisedIsReady, Helped
<1> QED BY <1>7, <1>8, <1>9, <1>10 DEF GateInv

LEMMA StartVerifyStep == ASSUME GateInv, Gate!StartVerify PROVE GateInv'
<1>1. Shape /\ Checking /\ Account
  BY DEF GateInv
<1>k. PICK left : left = {kind \in DOMAIN files : files[kind] # Gate!NoFile}
  OBVIOUS
<1>z. PICK zero \in Nat : zero = 0
  OBVIOUS
<1>2. /\ run.next = 0
      /\ check' = [left |-> left, failures |-> zero, before |-> recorded, result |-> "running"]
      /\ Unmoved /\ UNCHANGED <<files, index, recorded, run>>
  BY <1>k, <1>z DEF Gate!StartVerify, Gate!Idle, Gate!chainVars, Unmoved
<1>3. DOMAIN files = Gate!Range(Gate!Kinds) /\ recorded \subseteq Payments
  BY <1>1 DEF Shape
<1>4. check' \in CheckType /\ check'.left = left /\ check'.before = recorded /\ check'.result = "running"
  BY <1>2, <1>3, <1>k DEF CheckType
<1>5. Shape'
  <2>1. Gate!Captured' = Gate!Captured
    BY <1>2 DEF Gate!Captured
  <2> QED BY <1>1, <1>2, <1>4, <2>1 DEF Shape, Unmoved
<1>6. Checking'
  BY <1>2, <1>3, <1>4, <1>k DEF Checking
<1> QED BY <1>1, <1>2, <1>5, <1>6, AccountStays DEF GateInv, Unmoved

\* What the check of one fixture makes of the run of verify-live.
LEMMA VerifiedIs ==
  ASSUME Shape, Checking, NEW kind \in Gate!Range(Gate!Kinds), Gate!Verify(kind)
  PROVE  /\ kind \in check.left /\ check' \in CheckType
         /\ check'.left = check.left \ {kind} /\ check'.before = check.before
         /\ check'.failures = 0 => check.failures = 0 /\ files[kind] \notin recorded
         /\ check'.left # {} => check'.result = "running"
         /\ check'.result = "passed" => check'.left = {} /\ check'.failures = 0
         /\ recorded' = recorded \cup {files[kind]}
         /\ Unmoved /\ UNCHANGED <<files, index, run>>
<1> PICK failures : failures = check.failures + IF files[kind] \in recorded THEN 1 ELSE 0
  OBVIOUS
<1> PICK left : left = check.left \ {kind}
  OBVIOUS
<1> PICK result : result = CASE check.left # {kind} -> "running"
                             [] check.left = {kind} /\ failures > 0 -> "failed"
                             [] OTHER -> "passed"
  OBVIOUS
<1>1. /\ kind \in check.left /\ check' = [check EXCEPT !.left = left, !.failures = failures, !.result = result]
      /\ recorded' = recorded \cup {files[kind]} /\ Unmoved /\ UNCHANGED <<files, index, run>>
  BY DEF Gate!Verify, Gate!chainVars, Unmoved
<1>2. check.failures \in Nat /\ check.left \subseteq Gate!Range(Gate!Kinds) /\ check.before \subseteq Payments /\ check \in CheckType
  BY DEF Shape, CheckType
<1>3. check' = [left |-> left, failures |-> failures, before |-> check.before, result |-> result]
  BY <1>1, <1>2 DEF CheckType
<1>4. failures \in Nat /\ (failures = 0 => check.failures = 0 /\ files[kind] \notin recorded)
  BY <1>2
<1>5. left # {} => check.left # {kind}
  OBVIOUS
<1>6. CASE check.left # {kind}
  <2>1. result = "running"
    BY <1>6
  <2>2. check' \in CheckType
    BY <1>2, <1>3, <1>4, <2>1 DEF CheckType
  <2> QED BY <1>1, <1>3, <1>4, <2>1, <2>2
<1>7. CASE check.left = {kind} /\ failures > 0
  <2>1. result = "failed" /\ left = {}
    BY <1>7
  <2>2. check' \in CheckType
    BY <1>2, <1>3, <1>4, <2>1 DEF CheckType
  <2> QED BY <1>1, <1>3, <1>4, <2>1, <2>2
<1>8. CASE check.left = {kind} /\ ~ (failures > 0)
  <2>1. result = "passed" /\ left = {} /\ failures = 0
    BY <1>4, <1>8
  <2>2. check' \in CheckType
    BY <1>2, <1>3, <1>4, <2>1 DEF CheckType
  <2> QED BY <1>1, <1>3, <1>4, <2>1, <2>2
<1> QED BY <1>6, <1>7, <1>8

LEMMA VerifyStep ==
  ASSUME GateInv, NEW kind \in Gate!Range(Gate!Kinds), Gate!Verify(kind)
  PROVE  GateInv' /\ Gate!PassedIsRecorded
<1>1. Shape /\ Checking /\ Account
  BY DEF GateInv
<1>2. /\ kind \in check.left /\ check' \in CheckType
      /\ check'.left = check.left \ {kind} /\ check'.before = check.before
      /\ check'.failures = 0 => check.failures = 0 /\ files[kind] \notin recorded
      /\ check'.left # {} => check'.result = "running"
      /\ check'.result = "passed" => check'.left = {} /\ check'.failures = 0
      /\ recorded' = recorded \cup {files[kind]}
      /\ Unmoved /\ UNCHANGED <<files, index, run>>
  BY <1>1, VerifiedIs
<1>3. /\ run.next = 0 /\ check.before \subseteq recorded
      /\ \A k \in check.left : files[k] # Gate!NoFile
      /\ check.failures = 0 => \A k \in Gate!Range(Gate!Kinds) \ check.left :
                                  files[k] # Gate!NoFile => files[k] \in recorded \ check.before
  BY <1>1, <1>2 DEF Checking
<1>4. files[kind] \in attested /\ DOMAIN files = Gate!Range(Gate!Kinds)
  BY <1>1, <1>2, <1>3 DEF Shape
<1>5. Gate!Captured' = Gate!Captured
  BY <1>2 DEF Gate!Captured
<1>6. Shape'
  BY <1>1, <1>2, <1>4, <1>5 DEF Shape, Unmoved
<1>7. check'.failures = 0 => \A k \in Gate!Range(Gate!Kinds) \ check'.left :
                                files[k] # Gate!NoFile => files[k] \in recorded' \ check.before
  BY <1>2, <1>3
<1>8. Checking'
  BY <1>2, <1>3, <1>7 DEF Checking
<1>9. Gate!PassedIsRecorded
  BY <1>2, <1>4, <1>7 DEF Gate!PassedIsRecorded
<1> QED BY <1>1, <1>2, <1>6, <1>8, <1>9, AccountStays DEF GateInv, Unmoved

LEMMA GateInit == Gate!Init => GateInv
<1> SUFFICES ASSUME Gate!Init PROVE GateInv
  OBVIOUS
<1>z. PICK zero \in Nat : zero = 0
  OBVIOUS
<1>n. PICK next \in 0..15 : next = 0
  OBVIOUS
<1>e. PICK none : none = {}
  OBVIOUS
<1>f. PICK first \in 0..1, h \in Strays \cup {0} :
         /\ helper = [deployed |-> first, known |-> first]
         /\ usdc \in {Gate!Held(a, b, h) : a \in Balances, b \in Balances}
  BY DEF Gate!Init
<1>1. usdc \in [Holders -> Nat]
  <2>1. PICK a \in Balances, b \in Balances : usdc = Gate!Held(a, b, h)
    BY <1>f
  <2>2. a \in Nat /\ b \in Nat /\ h \in Nat
    BY GateConstants
  <2> QED BY <2>1, <2>2, HeldIsState
<1>2. allowance \in [Holders -> Nat]
  <2>1. allowance = Gate!Held(zero, zero, zero)
    BY <1>z DEF Gate!Init
  <2> QED BY <2>1, HeldIsState
<1>3. helper \in [deployed : Nat, known : Nat] /\ helper.known <= helper.deployed
  BY <1>f
<1>4. run = [number |-> zero, next |-> next, sent |-> FALSE, result |-> "none", origin |-> usdc,
             clean |-> TRUE, moved |-> FALSE]
  BY <1>z, <1>n DEF Gate!Init
<1>5. run \in RunType
  BY <1>1, <1>4 DEF RunType, Results
<1>6. check = [left |-> none, failures |-> zero, before |-> none, result |-> "none"]
  BY <1>z, <1>e DEF Gate!Init
<1>7. check \in CheckType /\ check.left = {}
  BY <1>e, <1>6 DEF CheckType
<1>8. /\ run.number = 0 /\ run.next = 0 /\ ~run.sent /\ run.result = "none" /\ run.origin = usdc
      /\ ~run.moved
  BY <1>z, <1>n, <1>4
<1>9. pool = {} /\ events = {} /\ attested = {} /\ recorded = {} /\ index = {}
      /\ files \in [Gate!Range(Gate!Kinds) -> attested \cup {Gate!NoFile}]
  BY DEF Gate!Init
<1>10. Shape
  BY <1>1, <1>2, <1>3, <1>5, <1>7, <1>8, <1>9 DEF Shape
<1>11. Checking
  BY <1>7 DEF Checking
<1>12. Standing(0)
  <2>1. usdc["A"] \in Nat /\ usdc["B"] \in Nat
    BY <1>1 DEF Holders
  <2>2. InA(0) = usdc["A"] /\ InB(0) = usdc["B"]
    BY <1>8, <2>1 DEF InA, InB
  <2>3. Own = {} /\ FirstPaid(0) = {}
    BY <1>9 DEF Own, FirstPaid
  <2> QED BY <1>8, <1>9, <2>2, <2>3 DEF Standing, Paid
<1>13. Account
  BY <1>1, <1>8, <1>12 DEF Account
<1> QED BY <1>10, <1>11, <1>13 DEF GateInv

\* Every step of the two commands and of the chain keeps the invariant, and what the
\* two commands say in it is so.
LEMMA OnlyVerifyPasses ==
  ASSUME Checking, check' = check \/ check'.result \in {"running", "crash"}
  PROVE  Gate!PassedIsRecorded
BY DEF Checking, Gate!PassedIsRecorded

LEMMA GateNext ==
  ASSUME GateInv, Gate!Next
  PROVE  GateInv' /\ Gate!AdvisedIsReady /\ Gate!PassedIsRecorded
<1>0. Checking
  BY DEF GateInv
<1>1. Gate!AdvisedIsReady
  BY FollowStep, Zenon DEF Gate!AdvisedIsReady
<1>2. ASSUME check' = check PROVE Gate!PassedIsRecorded
  BY <1>0, <1>2, OnlyVerifyPasses
<1>3. CASE Gate!StartCapture
  BY <1>1, <1>2, <1>3, StartStep DEF Gate!StartCapture
<1>4. CASE Gate!Skip
  BY <1>1, <1>2, <1>4, SkipStep DEF Gate!Skip
<1>5. CASE Gate!Send
  BY <1>1, <1>2, <1>5, SendStep DEF Gate!Send
<1>6. CASE Gate!Confirm
  BY <1>1, <1>2, <1>6, MinedStep DEF Gate!Confirm
<1>7. CASE Gate!Require
  BY <1>1, <1>2, <1>7, RequireStep DEF Gate!Require
<1>8. CASE Gate!Record
  BY <1>1, <1>2, <1>8, RememberStep DEF Gate!Record
<1>9. CASE Gate!Wait
  BY <1>1, <1>2, <1>9, WaitStep DEF Gate!Wait
<1>10. CASE Gate!Save
  BY <1>1, <1>2, <1>10, SaveStep DEF Gate!Save
<1>11. CASE Gate!Crash
  <2>1. check' = check \/ check'.result = "crash"
    <3>1. check \in CheckType
      BY DEF GateInv, Shape
    <3> QED BY <1>11, <3>1 DEF Gate!Crash, CheckType
  <2> QED BY <1>0, <1>1, <1>11, <2>1, KilledStep, OnlyVerifyPasses
<1>12. CASE Gate!FollowAdvice
  BY <1>1, <1>2, <1>12, FollowStep DEF Gate!FollowAdvice
<1>13. CASE Gate!StartVerify
  <2>1. check'.result = "running"
    BY <1>13 DEF Gate!StartVerify
  <2> QED BY <1>0, <1>1, <1>13, <2>1, StartVerifyStep, OnlyVerifyPasses
<1>14. CASE \E kind \in Gate!Range(Gate!Kinds) : Gate!Verify(kind)
  BY <1>1, <1>14, VerifyStep
<1>15. ASSUME NEW x \in pool, Gate!Mine(x) PROVE GateInv' /\ Gate!AdvisedIsReady /\ Gate!PassedIsRecorded
  BY <1>1, <1>2, <1>15, MineStep DEF Gate!Mine
<1>16. ASSUME NEW e \in events \ attested, Gate!Attest(e) PROVE GateInv' /\ Gate!AdvisedIsReady /\ Gate!PassedIsRecorded
  BY <1>1, <1>2, <1>16, AttestStep DEF Gate!Attest
<1> QED BY <1>3, <1>4, <1>5, <1>6, <1>7, <1>8, <1>9, <1>10, <1>11, <1>12, <1>13, <1>14, <1>15, <1>16 DEF Gate!Next

\* A run that has stopped left as many of the canonical stages as it made payments.
LEMMA StoppedIsRecognised ==
  ASSUME GateInv PROVE Gate!StoppedRunIsRecognised
<1>1. Shape /\ Account
  BY DEF GateInv
<1> DEFINE made == {e \in events : e.run = run.number}
<1> SUFFICES ASSUME run.next = 0, pool = {}, run.clean, ~run.moved, run.origin = Gate!MINIMUM_START
             PROVE  /\ usdc = Gate!CANONICAL_STAGES[Gate!Cardinality(made) + 1]
                    /\ Gate!Verdict(usdc) = IF made = {} THEN "ready" ELSE "skewed"
  BY DEF Gate!StoppedRunIsRecognised, Gate!Idle
<1>2. PICK m \in 0..3 : Standing(m)
  BY <1>1 DEF Account
<1>3. made = FirstPaid(m) /\ usdc["A"] = InA(m) /\ usdc["B"] = InB(m)
  BY <1>2 DEF Standing, Paid, Own
<1>4. m = 0 \/ m = 1 \/ m = 2 \/ m = 3
  OBVIOUS
<1>s. Gate!Cardinality(made) = Cardinality(made)
  BY DEF Gate!Cardinality, Cardinality
<1>5. Cardinality(made) = m /\ (made = {} <=> m = 0)
  <2>1. PICK a, b, c : /\ a = Gate!Step(Gate!Kinds[1], run.number) /\ b = Gate!Step(Gate!Kinds[2], run.number)
                       /\ c = Gate!Step(Gate!Kinds[3], run.number)
    OBVIOUS
  <2>2. a # b /\ c \notin {a} \cup {b}
    BY <2>1, KindsAre, StepIs
  <2>3. made = {Gate!Step(Gate!Kinds[k], run.number) : k \in 1..m}
    BY <1>3 DEF FirstPaid
  <2> HIDE DEF made
  <2>4. Cardinality({a} \cup {b}) = 2 /\ IsFiniteSet({a} \cup {b})
    <3>1. IsFiniteSet({a}) /\ Cardinality({a}) = 1
      BY FS_Singleton
    <3>2. b \notin {a}
      BY <2>2
    <3> QED BY <3>1, <3>2, FS_AddElement
  <2>5. CASE m = 0
    <3>1. made = {}
      BY <2>3, <2>5
    <3> QED BY <2>5, <3>1, FS_EmptySet
  <2>6. CASE m = 1
    <3>1. \A k \in 1..m : k = 1
      BY <2>6
    <3>2. 1 \in 1..m
      BY <2>6
    <3>3. made = {a}
      BY <2>1, <2>3, <3>1, <3>2
    <3> QED BY <2>6, <3>3, FS_Singleton
  <2>7. CASE m = 2
    <3>1. \A k \in 1..m : k = 1 \/ k = 2
      BY <2>7
    <3>2. 1 \in 1..m /\ 2 \in 1..m
      BY <2>7
    <3>3. made = {a} \cup {b}
      BY <2>1, <2>3, <3>1, <3>2
    <3> QED BY <2>4, <2>7, <3>3
  <2>8. CASE m = 3
    <3>1. \A k \in 1..m : k = 1 \/ k = 2 \/ k = 3
      BY <2>8
    <3>2. 1 \in 1..m /\ 2 \in 1..m /\ 3 \in 1..m
      BY <2>8
    <3>3. made = ({a} \cup {b}) \cup {c}
      BY <2>1, <2>3, <3>1, <3>2
    <3>4. Cardinality(({a} \cup {b}) \cup {c}) = Cardinality({a} \cup {b}) + 1
      BY <2>2, <2>4, FS_AddElement
    <3> QED BY <2>4, <2>8, <3>3, <3>4
  <2> QED BY <1>4, <2>5, <2>6, <2>7, <2>8
<1>6. usdc = Gate!CANONICAL_STAGES[m + 1]
  <2>1. PICK k \in 1..4 : k = m + 1
    OBVIOUS
  <2>2. AmountsAre
    BY Amounts
  <2>3. run.origin["A"] = FUNDING /\ run.origin["B"] = FACE_VALUE - FUNDING
    BY MinimumIs
  <2>4. usdc["A"] = Gate!CANONICAL_STAGES[k]["A"] /\ usdc["B"] = Gate!CANONICAL_STAGES[k]["B"]
    <3>1. CASE m = 0
      BY <1>3, <2>1, <2>2, <2>3, <3>1, StagesAre DEF InA, InB, AmountsAre
    <3>2. CASE m = 1
      BY <1>3, <2>1, <2>2, <2>3, <3>2, StagesAre DEF InA, InB, AmountsAre
    <3>3. CASE m = 2
      BY <1>3, <2>1, <2>2, <2>3, <3>3, StagesAre DEF InA, InB, AmountsAre
    <3>4. CASE m = 3
      BY <1>3, <2>1, <2>2, <2>3, <3>4, StagesAre DEF InA, InB, AmountsAre
    <3> QED BY <1>4, <3>1, <3>2, <3>3, <3>4
  <2>5. PICK u : u = usdc
    OBVIOUS
  <2>6. PICK v : v = Gate!CANONICAL_STAGES[k]
    OBVIOUS
  <2>7. v \in [Holders -> Nat] /\ v["H"] = 0 /\ u \in [Holders -> Nat] /\ u["H"] = 0
    <3>1. Gate!MINIMUM_START["H"] = 0
      BY StagesAre
    <3> QED BY <1>1, <2>5, <2>6, <3>1, StagesAre DEF Shape
  <2>8. u["A"] = v["A"] /\ u["B"] = v["B"]
    BY <2>4, <2>5, <2>6
  <2>9. u = v
    BY <2>7, <2>8, TwoNumbers
  <2> QED BY <2>1, <2>5, <2>6, <2>9
<1>7. Gate!Verdict(usdc) = IF m = 0 THEN "ready" ELSE "skewed"
  <2>1. CASE m = 0
    BY <1>6, <2>1, StagesAreTold
  <2>2. CASE m # 0
    <3>1. PICK k \in 2..4 : k = m + 1
      BY <1>4, <2>2
    <3> QED BY <1>6, <2>2, <3>1, StagesAreTold
  <2> QED BY <2>1, <2>2
<1> QED BY <1>s, <1>5, <1>6, <1>7

LEMMA GateInvImplies == GateInv => Gate!PlanIsTrue
<1> SUFFICES ASSUME GateInv PROVE Gate!PlanIsTrue
  OBVIOUS
<1>1. Gate!TypeOK
  BY OrderIs DEF GateInv, Shape, Gate!TypeOK, RunType, Holders
<1>2. Gate!ReadyRunIsPaid
  BY DEF GateInv, Account, Gate!ReadyRunIsPaid
<1> QED BY <1>1, <1>2, StoppedIsRecognised DEF Gate!PlanIsTrue

-----------------------------------------------------------------------------
(***************************************************************************)
(* The tools together.                                                     *)
(***************************************************************************)

\* What each tool keeps true, of the tool the behaviour is about.
ToolsInv ==
    /\ tool = "deploys" => DeployInv
    /\ tool = "refresh" => RefreshInv
    /\ tool = "probe" => ProbeInv
    /\ tool = "gate" => GateInv

LEMMA DeployStill == ASSUME DeployInv, UNCHANGED deployVars PROVE DeployInv'
<1>1. [Deploys!Next]_deployVars
  OBVIOUS
<1> QED BY <1>1, DeployNext

LEMMA RefreshStill == ASSUME RefreshInv, UNCHANGED refreshVars PROVE RefreshInv'
<1>1. [Refresh!Next]_refreshVars
  OBVIOUS
<1> QED BY <1>1, RefreshNext

LEMMA ProbeStill == ASSUME ProbeInv, UNCHANGED probeVars PROVE ProbeInv'
BY TimelyIfStill, AnsweredStill, SamplingStill DEF probeVars, ProbeInv, ProbeTypes

LEMMA GateStill == ASSUME GateInv, UNCHANGED gateVars PROVE GateInv'
<1>1. Shape /\ Checking /\ Account
  BY DEF GateInv
<1>2. UNCHANGED <<usdc, allowance, helper, pool, events, attested, files, index, recorded, run, check>>
  BY DEF gateVars
<1>3. Gate!Captured' = Gate!Captured
  BY <1>2 DEF Gate!Captured
<1>4. Shape'
  BY <1>1, <1>2, <1>3 DEF Shape
<1>5. Checking'
  BY <1>1, <1>2 DEF Checking
<1> QED BY <1>1, <1>2, <1>4, <1>5, AccountStays DEF GateInv

LEMMA ToolsInvHolds == ToolsSpec => []ToolsInv
<1> DEFINE allVars == <<tool, walletVars, deployVars, refreshVars, probeVars, gateVars>>
<1>1. ToolsInit => ToolsInv
  BY DeployInit, RefreshInit, ProbeInit, GateInit DEF ToolsInit, ToolsInv
<1>2. ASSUME ToolsInv, [ToolsNext]_allVars PROVE ToolsInv'
  <2>1. tool' = tool
    BY <1>2 DEF ToolsNext
  <2>2. CASE tool = "deploys"
    <3>1. Deploys!Next \/ UNCHANGED deployVars
      BY <1>2, <2>2 DEF ToolsNext
    <3>2. DeployInv'
      BY <1>2, <2>2, <3>1, DeployNext, DeployStill DEF ToolsInv
    <3> QED BY <2>1, <2>2, <3>2 DEF ToolsInv
  <2>3. CASE tool = "refresh"
    <3>1. Refresh!Next \/ UNCHANGED refreshVars
      BY <1>2, <2>3 DEF ToolsNext
    <3>2. RefreshInv'
      BY <1>2, <2>3, <3>1, RefreshNext, RefreshStill DEF ToolsInv
    <3> QED BY <2>1, <2>3, <3>2 DEF ToolsInv
  <2>4. CASE tool = "probe"
    <3>1. Probing!Next \/ UNCHANGED probeVars
      BY <1>2, <2>4 DEF ToolsNext
    <3>2. ProbeInv'
      BY <1>2, <2>4, <3>1, ProbeNext, ProbeStill DEF ToolsInv
    <3> QED BY <2>1, <2>4, <3>2 DEF ToolsInv
  <2>5. CASE tool = "gate"
    <3>1. Gate!Next \/ UNCHANGED gateVars
      BY <1>2, <2>5 DEF ToolsNext
    <3>2. GateInv'
      BY <1>2, <2>5, <3>1, GateNext, GateStill DEF ToolsInv
    <3> QED BY <2>1, <2>5, <3>2 DEF ToolsInv
  <2>6. CASE tool \notin {"deploys", "refresh", "probe", "gate"}
    BY <2>1, <2>6 DEF ToolsInv
  <2> QED BY <2>2, <2>3, <2>4, <2>5, <2>6
<1> QED BY <1>1, <1>2, PTL DEF ToolsSpec

\* What the deployment records say of the chains is so, whichever scripts ran at once,
\* were killed or lost a nonce to another, and whenever the operator deleted the
\* gateway's entry for a new one: deploy-gateway.ts, deploy-verifier.ts,
\* deploy-deals.ts and mergeDeployment.
THEOREM RecordsSound == ToolsSpec => []RecordsAreSound
<1>1. ToolsInv => RecordsAreSound
  BY DeployInvImplies DEF ToolsInv, RecordsAreSound
<1> QED BY <1>1, ToolsInvHolds, PTL

\* What the dashboard shows is one read, the last that succeeded, and MATCH is said only
\* of a state after one of the changes made while it was read: useLiveState and liveRead.
THEOREM ShownTrue == ToolsSpec => []ShownIsTrue
<1>1. ToolsInv => ShownIsTrue
  BY RefreshInvImplies DEF ToolsInv, ShownIsTrue
<1> QED BY <1>1, ToolsInvHolds, PTL

\* The probe's report is whole, and with the grace period it derives no deal that was
\* paid in time is marked defaulted before its proof arrives: probe.ts.
THEOREM ReportSound == ToolsSpec => []ReportIsSound
<1>1. ToolsInv => ReportIsSound
  BY ProbeInvImplies DEF ToolsInv, ReportIsSound
<1> QED BY <1>1, ToolsInvHolds, PTL

\* A capture that the projection called ready is never short of tokens, and one that
\* stopped is told by the balances it left: live-plan.ts and capture-gate-fixtures.ts.
THEOREM PlanTrue == ToolsSpec => []PlanIsTrue
<1>1. ToolsInv => PlanIsTrue
  BY GateInvImplies DEF ToolsInv, PlanIsTrue
<1> QED BY <1>1, ToolsInvHolds, PTL

\* What the operator is advised makes the next run ready, or, with tokens at the helper,
\* ready but for B, and verify-live passes only when it recorded every fixture itself:
\* diagnose and verify-live.ts.
THEOREM WordKept == ToolsSpec => WordIsKept
<1> DEFINE allVars == <<tool, walletVars, deployVars, refreshVars, probeVars, gateVars>>
           said == tool = "gate" => Gate!AdvisedIsReady /\ Gate!PassedIsRecorded
<1>1. ASSUME ToolsInv, [ToolsNext]_allVars PROVE [said]_gateVars
  <2>1. CASE UNCHANGED gateVars
    BY <2>1
  <2>2. CASE tool = "gate" /\ Gate!Next
    <3>1. GateInv
      BY <1>1, <2>2 DEF ToolsInv
    <3> QED BY <2>2, <3>1, GateNext
  <2>3. CASE tool # "gate"
    BY <2>3
  <2> QED BY <1>1, <2>1, <2>2, <2>3 DEF ToolsNext
<1> QED BY <1>1, ToolsInvHolds, PTL DEF ToolsSpec, WordIsKept
=============================================================================
