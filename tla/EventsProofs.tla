------------------------------ MODULE EventsProofs ------------------------------
(***************************************************************************)
(* Proofs about what an audit or an event session goes through:            *)
(* DisableWindow, for any callers, any names and windows of any number of  *)
(* writes; EventFile, for any number of files, buffers and events, and any *)
(* maxima.                                                                 *)
(***************************************************************************)
EXTENDS DisableWindow, EventFile, SequenceTheorems, TLAPS

-----------------------------------------------------------------------------
(* The windows it is switched off for.                                         *)

Open == {"off", "body", "on"}

\* A caller restores only what it found on, and addresses it by the name it
\* has in hand until the restore.
Opened == \A p \in Procs :
    /\ pc[p] \in {"off", "on"} => restore[p]
    /\ pc[p] \in {"off", "body"} => window[p] = handle[p]

\* What is on, and what a window is to switch on, was to be on.
Justified == ~setMeanwhile =>
    /\ on => found
    /\ \A p \in Procs : restore[p] /\ pc[p] \in Open => found

\* The object is off although it is to be on,
Owed == found /\ ~on /\ name # None
\* and this caller is yet to switch it on, or to drop it.
Pending(p) == restore[p] /\ pc[p] \in {"body", "on", "drop"}

Silence == quiet /\ Owed => \E p \in Procs : Pending(p)

\* It will address it by its name, unless somebody else renamed it since.
Sure(p) == Pending(p) /\ (pc[p] = "drop" \/ window[p] = name \/ renamer # p)
Covered == stray = "nothing" /\ Owed => \E p \in Procs : Sure(p)

WindowInv == TypeOK /\ Opened /\ Justified /\ Silence /\ Covered

LEMMA BodiesTyped == \A body \in Bodies : body \in Seq(Writes)
<1>1. <<"alter">> \in Seq(Writes)
  BY DEF Writes
<1>2. \A n \in Nat, W \in SUBSET Writes : [1..n -> W] \subseteq Seq(Writes)
  <2> TAKE n \in Nat, W \in SUBSET Writes
  <2> SUFFICES ASSUME NEW body \in [1..n -> W] PROVE body \in Seq(Writes)
    OBVIOUS
  <2> QED BY IsASeq
<1>3. 0..MaxWrites \subseteq Nat /\ {"alter"} \in SUBSET Writes
  BY DEF Writes
<1> QED BY <1>1, <1>2, <1>3 DEF Bodies

LEMMA InitInv == Init => WindowInv
<1> SUFFICES ASSUME Init PROVE WindowInv
  OBVIOUS
<1>1. TypeOK
  <2>1. /\ restore \in [Procs -> BOOLEAN]
        /\ err \in [Procs -> BOOLEAN]
        /\ ended \in [Procs -> BOOLEAN]
    BY Zenon DEF Init
  <2>2. DOMAIN todo = Procs /\ \A p \in Procs : todo[p] \in Seq(Writes)
    BY EmptySeq DEF Init
  <2> QED BY <2>1, <2>2, WindowAssumption DEF Init, TypeOK, Strays
<1>2. Opened /\ Justified /\ Silence /\ Covered
  BY DEF Init, Opened, Justified, Silence, Covered, Owed, Open
<1> QED BY <1>1, <1>2 DEF WindowInv

LEMMA StrayTyped ==
    ASSUME TypeOK, NEW how \in Strays, Stray(how)
    PROVE  stray' \in Strays /\ (stray' = "nothing" => stray = "nothing" /\ how = "nothing")
  BY DEF TypeOK, Stray, Strays

\* What a call leaves when it returns.
LEMMA Returned ==
    ASSUME TypeOK, NEW p \in Procs, NEW ok \in BOOLEAN, Return(p, ok)
    PROVE  /\ pc' = [pc EXCEPT ![p] = "rest"]
           /\ window' = [window EXCEPT ![p] = None]
           /\ restore' = [restore EXCEPT ![p] = FALSE]
           /\ window' \in [Procs -> Names \cup {None}]
           /\ restore' \in [Procs -> BOOLEAN]
           /\ DOMAIN todo' = Procs /\ \A r \in Procs : todo'[r] \in Seq(Writes)
           /\ err' \in [Procs -> BOOLEAN]
           /\ ended' \in [Procs -> BOOLEAN]
           /\ quiet' \in BOOLEAN
           /\ (quiet' => quiet /\ ok)
           /\ setMeanwhile' = setMeanwhile
  <1>1. restore' \in [Procs -> BOOLEAN] /\ err' \in [Procs -> BOOLEAN] /\ ended' \in [Procs -> BOOLEAN]
    BY Zenon DEF Return, TypeOK
  <1>2. DOMAIN todo' = Procs /\ \A r \in Procs : todo'[r] \in Seq(Writes)
    BY EmptySeq DEF Return, TypeOK
  <1>3. window' \in [Procs -> Names \cup {None}]
    BY DEF Return, TypeOK
  <1> QED BY <1>1, <1>2, <1>3 DEF Return, Goto, TypeOK

\* A call that returns owes nothing if it was not to switch the object on, if
\* the object is on or gone, or if it reports an error and counts as an excuse.
LEMMA Returning ==
    ASSUME WindowInv, NEW p \in Procs, NEW ok \in BOOLEAN, Return(p, ok),
           UNCHANGED <<kind, found, renamer, handle>>,
           name' \in {name, None}, on' \in BOOLEAN, stray' \in Strays,
           on' => on \/ (pc[p] = "on" /\ restore[p]),
           stray' = "nothing" => stray = "nothing",
           \/ name' = None
           \/ on'
           \/ on' = on /\ ~Pending(p)
           \/ ~ok /\ (stray' = "nothing" => on' = on /\ ~Sure(p))
    PROVE  WindowInv'
  <1> USE DEF WindowInv
  <1>0. /\ pc' = [pc EXCEPT ![p] = "rest"]
        /\ window' = [window EXCEPT ![p] = None]
        /\ restore' = [restore EXCEPT ![p] = FALSE]
        /\ quiet' => quiet /\ ok
        /\ setMeanwhile' = setMeanwhile
    BY Returned
  <1>1. TypeOK'
    <2>1. /\ window' \in [Procs -> Names \cup {None}]
          /\ restore' \in [Procs -> BOOLEAN]
          /\ DOMAIN todo' = Procs /\ \A r \in Procs : todo'[r] \in Seq(Writes)
          /\ err' \in [Procs -> BOOLEAN]
          /\ ended' \in [Procs -> BOOLEAN]
          /\ quiet' \in BOOLEAN
      BY Returned
    <2>2. \A r \in Procs : window'[r] # None <=> pc'[r] \in {"off", "body", "on"}
      BY <1>0 DEF TypeOK
    <2> QED BY <1>0, <2>1, <2>2 DEF TypeOK
  <1>2. Opened'
    BY <1>0 DEF TypeOK, Opened
  <1>7. Justified'
    BY <1>0 DEF TypeOK, Justified, Open
  <1>3. \A r \in Procs \ {p} : Pending(r)' = Pending(r)
    BY <1>0 DEF Pending, TypeOK
  <1>4. \A r \in Procs \ {p} : name' = name => Sure(r)' = Sure(r)
    BY <1>0, <1>3 DEF Sure, TypeOK
  <1>5. Silence'
    BY <1>0, <1>3 DEF Silence, Owed, TypeOK
  <1>6. Covered'
    BY <1>0, <1>4 DEF Covered, Owed, TypeOK, Sure
  <1> QED BY <1>1, <1>2, <1>5, <1>6, <1>7

\* Between calls.
LEMMA Beginning ==
    ASSUME WindowInv, NEW p \in Procs, BeginWindow(p) \/ BeginDrop(p) \/ ContextEnds(p)
    PROVE  WindowInv'
  <1> USE DEF WindowInv
  <1>1. CASE BeginWindow(p)
    <2>1. PICK body \in Bodies : todo' = [todo EXCEPT ![p] = body]
      BY <1>1 DEF BeginWindow
    <2>2. DOMAIN todo' = Procs /\ \A r \in Procs : todo'[r] \in Seq(Writes)
      BY <2>1, BodiesTyped DEF TypeOK
    <2>3. handle' \in [Procs -> Names]
      BY <1>1 DEF BeginWindow, TypeOK
    <2>4. TypeOK'
      BY <1>1, <2>2, <2>3 DEF BeginWindow, Goto, TypeOK, object, history
    <2>5. Opened' /\ Justified' /\ Silence' /\ Covered'
      BY <1>1 DEF BeginWindow, Goto, TypeOK, object, history, Opened, Justified, Silence, Covered, Owed, Pending, Sure, Open
    <2> QED BY <2>4, <2>5
  <1>2. CASE BeginDrop(p)
    BY <1>2 DEF BeginDrop, Goto, TypeOK, object, history, Opened, Justified, Silence, Covered, Owed, Pending, Sure, Open
  <1>3. CASE ContextEnds(p)
    <2>1. ended' \in [Procs -> BOOLEAN]
      BY <1>3, Zenon DEF ContextEnds, TypeOK
    <2> QED BY <1>3, <2>1 DEF ContextEnds, TypeOK, object, history, Opened, Justified, Silence, Covered, Owed, Pending, Sure, Open
  <1> QED BY <1>1, <1>2, <1>3

LEMMA Setting ==
    ASSUME WindowInv, NEW p \in Procs, Set(p)
    PROVE  WindowInv'
  <1> USE DEF WindowInv
  <1>1. /\ stray' \in Strays /\ setMeanwhile' \in BOOLEAN /\ quiet' \in BOOLEAN
        /\ on' \in BOOLEAN /\ found' \in BOOLEAN
        /\ quiet' => quiet
        /\ stray' = "nothing" => stray = "nothing"
        /\ (on' = on /\ found' = found) \/ (on' = found')
    <2>1. \/ /\ on' \in BOOLEAN /\ found' = on'
             /\ \/ UNCHANGED <<stray, setMeanwhile>>
                \/ Stray("excused") /\ setMeanwhile' = TRUE
             /\ quiet' \in {quiet, FALSE}
          \/ UNCHANGED <<on, found, stray, setMeanwhile>> /\ quiet' = FALSE
      BY DEF Set
    <2>2. "excused" \in Strays
      BY DEF Strays
    <2>3. on \in BOOLEAN /\ found \in BOOLEAN /\ quiet \in BOOLEAN /\ setMeanwhile \in BOOLEAN
      BY DEF TypeOK
    <2>4. /\ on' \in BOOLEAN /\ found' \in BOOLEAN
          /\ setMeanwhile' \in BOOLEAN
          /\ quiet' \in BOOLEAN /\ (quiet' => quiet)
          /\ (on' = on /\ found' = found) \/ (on' = found')
      <3>1. CASE /\ on' \in BOOLEAN /\ found' = on'
                 /\ setMeanwhile' = TRUE \/ UNCHANGED setMeanwhile
                 /\ quiet' \in {quiet, FALSE}
        <4>1. /\ on' \in BOOLEAN /\ found' \in BOOLEAN /\ on' = found'
              /\ setMeanwhile' \in BOOLEAN
          BY <2>3, <3>1
        <4>2. quiet' \in BOOLEAN /\ (quiet' => quiet)
          <5>1. CASE quiet' = quiet
            BY <2>3, <5>1
          <5>2. CASE quiet' = FALSE
            BY <5>2
          <5> QED BY <3>1, <5>1, <5>2
        <4> QED BY <4>1, <4>2
      <3>2. CASE UNCHANGED <<on, found, setMeanwhile>> /\ quiet' = FALSE
        BY <2>3, <3>2
      <3> QED BY <2>1, <3>1, <3>2
    <2>5. stray' \in Strays /\ (stray' = "nothing" => stray = "nothing")
      <3>1. Stray("excused") \/ UNCHANGED stray
        BY <2>1, Zenon
      <3>2. stray \in Strays
        BY DEF TypeOK
      <3> QED BY <3>1, <3>2 DEF Stray, Strays
    <2> QED BY <2>4, <2>5
  <1>2. UNCHANGED <<kind, name, renamer, pc, handle, window, restore, todo, err, ended>>
    BY DEF Set, call
  <1>3. TypeOK'
    BY <1>1, <1>2 DEF TypeOK
  <1>4. Justified'
    <2>1. CASE UNCHANGED <<on, found, setMeanwhile>>
      BY <2>1, <1>2 DEF Justified, Open
    <2>2. CASE on' = found' /\ ~UNCHANGED <<on, found, setMeanwhile>>
      <3>1. setMeanwhile' \/ \A q \in Procs : pc[q] = "rest"
        BY <2>2 DEF Set
      <3> QED BY <2>2, <3>1, <1>2 DEF Justified, Open
    <2> QED BY <2>1, <2>2 DEF Set
  <1>5. Opened' /\ Silence' /\ Covered'
    BY <1>1, <1>2 DEF Opened, Silence, Covered, Owed, Pending, Sure
  <1> QED BY <1>3, <1>4, <1>5

\* isEnabled, of a window and of a drop.
LEMMA Reading ==
    ASSUME WindowInv, NEW p \in Procs, Read(p) \/ DropRead(p)
    PROVE  WindowInv'
  <1> USE DEF WindowInv
  <1>1. CASE Return(p, FALSE)
    <2>1. ~Pending(p) /\ UNCHANGED <<kind, name, on, found, renamer, handle, stray>>
      BY DEF Read, DropRead, Pending, object
    <2> QED BY <1>1, <2>1, Returning DEF TypeOK
  <1>2. CASE ~Return(p, FALSE) /\ Read(p)
    <2>1. /\ window' = [window EXCEPT ![p] = handle[p]] /\ restore' = [restore EXCEPT ![p] = on]
          /\ Goto(p, IF on THEN "off" ELSE "body") /\ name = handle[p]
          /\ UNCHANGED <<object, handle, stray, todo, err, ended, quiet, setMeanwhile>>
      BY <1>2 DEF Read, Finds
    <2>2. restore' \in [Procs -> BOOLEAN]
      BY <2>1, Zenon DEF TypeOK
    <2>3. TypeOK'
      BY <2>1, <2>2, WindowAssumption DEF TypeOK, Goto, object
    <2>4. pc[p] = "read"
      BY <1>2 DEF Read
    <2>5. Opened' /\ Justified' /\ Silence' /\ Covered'
      BY <2>1, <2>4 DEF TypeOK, Goto, object, Opened, Justified, Silence, Covered, Owed, Pending, Sure, Open
    <2> QED BY <2>3, <2>5
  <1>3. CASE ~Return(p, FALSE) /\ DropRead(p)
    <2>1. /\ pc[p] = "dropRead" /\ \E label \in {"dropOff", "drop"} : pc' = [pc EXCEPT ![p] = label]
          /\ UNCHANGED <<object, handle, stray, window, restore, todo, err, ended, quiet, setMeanwhile>>
      BY <1>3 DEF DropRead, Goto
    <2> QED BY <2>1 DEF TypeOK, object, Opened, Justified, Silence, Covered, Owed, Pending, Sure, Open
  <1> QED BY <1>1, <1>2, <1>3

\* Disable, of a window and of a drop.
LEMMA SwitchingOff ==
    ASSUME WindowInv, NEW p \in Procs, SwitchOff(p) \/ DropSwitchOff(p)
    PROVE  WindowInv'
  <1> USE DEF WindowInv
  <1>1. CASE Return(p, FALSE)
    <2>1. stray' \in Strays /\ (stray' = "nothing" => stray = "nothing" /\ on' = on)
      <3>1. \/ on' = FALSE /\ Stray("unheard")
            \/ on' = FALSE /\ Stray("excused")
            \/ UNCHANGED <<on, stray>>
            \/ pc'[p] # "rest"
        BY DEF SwitchOff, DropSwitchOff, Goto, TypeOK
      <3>2. pc'[p] = "rest"
        BY <1>1 DEF Return, Goto, TypeOK
      <3>3. {"unheard", "excused"} \subseteq Strays
        BY DEF Strays
      <3> QED BY <3>1, <3>2, <3>3, StrayTyped DEF TypeOK
    <2>2. ~Pending(p) /\ UNCHANGED <<kind, name, found, renamer, handle>> /\ on' \in {on, FALSE}
      BY DEF SwitchOff, DropSwitchOff, Pending, TypeOK
    <2>3. on \in BOOLEAN
      BY DEF TypeOK
    <2>4. ~Sure(p)
      BY <2>2 DEF Sure
    <2>5. on' \in BOOLEAN /\ (on' => on)
      <3>1. CASE on' = on
        BY <2>3, <3>1
      <3>2. CASE on' = FALSE
        BY <3>2
      <3> QED BY <2>2, <3>1, <3>2
    <2>6. name' \in {name, None} /\ FALSE \in BOOLEAN
      BY <2>2
    <2> QED BY <1>1, <2>1, <2>2, <2>4, <2>5, <2>6, Returning
  <1>2. CASE ~Return(p, FALSE)
    <2>1. /\ on' = FALSE /\ name = handle[p]
          /\ UNCHANGED <<kind, name, found, renamer, handle, window, todo, err, ended, history>>
          /\ \/ pc[p] = "off" /\ Goto(p, "body") /\ UNCHANGED restore
             \/ /\ pc[p] = "dropOff" /\ Goto(p, "drop")
                /\ restore' = [restore EXCEPT ![p] = TRUE]
      BY <1>2 DEF SwitchOff, DropSwitchOff, Finds
    <2>2. restore' \in [Procs -> BOOLEAN]
      BY <2>1, Zenon DEF TypeOK
    <2>3. TypeOK'
      BY <2>1, <2>2 DEF TypeOK, Goto, history
    <2>4. Opened' /\ Justified'
      BY <2>1 DEF TypeOK, Goto, Opened, Justified, Open, history
    <2>5. Sure(p)'
      BY <2>1 DEF TypeOK, Goto, Opened, Sure, Pending
    <2> QED BY <2>3, <2>4, <2>5 DEF Silence, Covered, Sure
  <1> QED BY <1>1, <1>2

LEMMA TailTyped ==
    ASSUME TypeOK, NEW p \in Procs, WriteDone(p), todo[p] # <<>>
    PROVE  DOMAIN todo' = Procs /\ \A r \in Procs : todo'[r] \in Seq(Writes)
  BY HeadTailProperties DEF WriteDone, TypeOK

LEMMA Altering ==
    ASSUME WindowInv, NEW p \in Procs, Alter(p)
    PROVE  WindowInv'
  BY TailTyped DEF WindowInv, Alter, IsNext, TypeOK, object, history, Opened, Justified, Silence, Covered, Owed, Pending, Sure, Open

LEMMA Renaming ==
    ASSUME WindowInv, NEW p \in Procs, Rename(p)
    PROVE  WindowInv'
  <1> USE DEF WindowInv
  <1>1. PICK n \in Names : /\ name' = n
                           /\ handle' = [handle EXCEPT ![p] = n]
                           /\ window' = [window EXCEPT ![p] = n]
    BY DEF Rename
  <1>2. /\ pc[p] = "body" /\ renamer' = p /\ name = handle[p]
        /\ UNCHANGED <<kind, on, found, pc, restore, err, ended, history>>
    BY DEF Rename, IsNext, Finds
  <1>3. TypeOK'
    BY <1>1, <1>2, TailTyped, WindowAssumption DEF Rename, IsNext, TypeOK, history
  <1>4. Opened' /\ Justified' /\ Silence'
    BY <1>1, <1>2 DEF TypeOK, Opened, Justified, Silence, Owed, Pending, Open, history
  <1>5. \A r \in Procs : Sure(r) => Sure(r)'
    BY <1>1, <1>2 DEF TypeOK, Sure, Pending
  <1>6. Covered'
    BY <1>1, <1>2, <1>5, WindowAssumption DEF Covered, Owed, history, TypeOK
  <1> QED BY <1>3, <1>4, <1>6

LEMMA Failing ==
    ASSUME WindowInv, NEW p \in Procs, WriteFails(p)
    PROVE  WindowInv'
  <1> USE DEF WindowInv
  <1>1. /\ pc[p] = "body"
        /\ UNCHANGED <<kind, on, found, pc, handle, window, restore, ended, quiet, setMeanwhile>>
    BY DEF WriteFails
  <1>2. /\ stray' \in Strays
        /\ stray' = "nothing" => stray = "nothing" /\ UNCHANGED <<name, renamer>>
        /\ name' # name => name' \in Names /\ name \in Names
        /\ name' \in Names \cup {None} /\ renamer' \in Procs \cup {None}
    BY StrayTyped DEF WriteFails, TypeOK, Strays, Finds
  <1>3. /\ DOMAIN todo' = Procs /\ \A r \in Procs : todo'[r] \in Seq(Writes)
        /\ err' \in [Procs -> BOOLEAN]
    <2>1. CASE err' = [err EXCEPT ![p] = TRUE] /\ todo' = [todo EXCEPT ![p] = <<>>]
      <3>1. err' \in [Procs -> BOOLEAN]
        BY <2>1, Zenon DEF TypeOK
      <3> QED BY <2>1, <3>1, EmptySeq DEF TypeOK
    <2>2. CASE UNCHANGED err /\ WriteDone(p)
      BY <2>2, TailTyped DEF WriteFails, TypeOK
    <2> QED BY <2>1, <2>2 DEF WriteFails
  <1>4. TypeOK'
    BY <1>1, <1>2, <1>3 DEF TypeOK
  <1>5. Opened' /\ Justified' /\ Silence' /\ Covered'
    BY <1>1, <1>2, WindowAssumption DEF Opened, Justified, Silence, Covered, Owed, Pending, Sure, Open
  <1> QED BY <1>4, <1>5

LEMMA Ending ==
    ASSUME WindowInv, NEW p \in Procs, Panic(p) \/ BodyEnds(p)
    PROVE  WindowInv'
  <1> USE DEF WindowInv
  <1>1. CASE Panic(p)
    <2>1. /\ stray' \in Strays /\ Return(p, FALSE) /\ UNCHANGED <<object, handle>>
          /\ stray' = "nothing" => stray = "nothing" /\ ~restore[p]
      BY <1>1, StrayTyped DEF Panic, Strays
    <2> QED BY <2>1, Returning DEF TypeOK, object, Sure, Pending
  <1>2. CASE BodyEnds(p) /\ ~restore[p]
    <2>1. err[p] \in BOOLEAN /\ Return(p, ~err[p]) /\ UNCHANGED <<object, handle, stray>>
      BY <1>2 DEF BodyEnds, TypeOK
    <2> QED BY <1>2, <2>1, Returning DEF TypeOK, object, Pending
  <1>3. CASE BodyEnds(p) /\ restore[p]
    <2>1. /\ pc[p] = "body" /\ pc' = [pc EXCEPT ![p] = "on"]
          /\ UNCHANGED <<object, handle, stray, window, restore, todo, err, ended, quiet, setMeanwhile>>
      BY <1>3 DEF BodyEnds, Goto
    <2>2. TypeOK' /\ Opened' /\ Justified'
      BY <1>3, <2>1 DEF TypeOK, object, Opened, Justified, Open
    <2>3. \A r \in Procs : (Pending(r) => Pending(r)') /\ (Sure(r) => Sure(r)')
      BY <2>1 DEF TypeOK, object, Pending, Sure
    <2> QED BY <2>1, <2>2, <2>3 DEF Silence, Covered, Owed, object
  <1> QED BY <1>1, <1>2, <1>3

LEMMA SwitchingOn ==
    ASSUME WindowInv, NEW p \in Procs, SwitchOn(p)
    PROVE  WindowInv'
  <1> USE DEF WindowInv
  <1>1. pc[p] = "on" /\ restore[p] /\ UNCHANGED <<kind, name, found, renamer, handle>>
    BY DEF SwitchOn, Opened
  <1>2. CASE on' = TRUE /\ UNCHANGED stray
    <2>1. PICK ok \in BOOLEAN : Return(p, ok)
      BY <1>2, <1>1 DEF SwitchOn, TypeOK
    <2> QED BY <1>1, <1>2, <2>1, Returning DEF TypeOK
  <1>3. CASE ~(on' = TRUE /\ UNCHANGED stray)
    <2>1. /\ on' = on /\ Return(p, FALSE) /\ stray' \in Strays
          /\ stray' = "nothing" => stray = "nothing" /\ window[p] # name /\ renamer = p
      BY <1>3, <1>1, StrayTyped DEF SwitchOn, Strays, Finds
    <2> QED BY <1>1, <2>1, Returning DEF TypeOK, Sure
  <1> QED BY <1>2, <1>3

LEMMA Dropping ==
    ASSUME WindowInv, NEW p \in Procs, Drop(p)
    PROVE  WindowInv'
  <1> USE DEF WindowInv
  <1>1. pc[p] = "drop" /\ UNCHANGED <<kind, on, found, renamer, handle>>
    BY DEF Drop
  <1>2. CASE name' = None /\ UNCHANGED stray /\ \E heard \in {~ended[p], FALSE} : Return(p, heard)
    <2>1. PICK ok \in BOOLEAN : Return(p, ok)
      BY <1>2 DEF TypeOK
    <2> QED BY <1>1, <1>2, <2>1, Returning DEF TypeOK
  <1>3. CASE UNCHANGED name /\ Return(p, FALSE) /\ Stray(IF restore[p] THEN "excused" ELSE "nothing")
    <2>1. stray' \in Strays /\ (stray' = "nothing" => stray = "nothing" /\ ~restore[p])
      BY <1>3, StrayTyped DEF Strays
    <2> QED BY <1>1, <1>3, <2>1, Returning DEF TypeOK, Sure, Pending
  <1> QED BY <1>2, <1>3 DEF Drop

LEMMA StepInv == WindowInv /\ [Next]_vars => WindowInv'
<1> SUFFICES ASSUME WindowInv, [Next]_vars PROVE WindowInv'
  OBVIOUS
<1>1. CASE UNCHANGED vars
  BY <1>1 DEF vars, object, call, history, WindowInv, TypeOK, Opened, Justified, Silence, Covered, Owed, Pending, Sure, Open
<1>2. ASSUME NEW p \in Procs,
             \/ BeginWindow(p) \/ BeginDrop(p) \/ ContextEnds(p) \/ Set(p)
             \/ Read(p) \/ SwitchOff(p) \/ Alter(p) \/ Rename(p) \/ WriteFails(p) \/ Panic(p)
             \/ BodyEnds(p) \/ SwitchOn(p)
             \/ DropRead(p) \/ DropSwitchOff(p) \/ Drop(p)
      PROVE  WindowInv'
  BY <1>2, Beginning, Setting, Reading, SwitchingOff, Altering, Renaming, Failing, Ending,
     SwitchingOn, Dropping
<1> QED BY <1>1, <1>2 DEF Next

LEMMA InvAlways == Spec => []WindowInv
<1> QED BY InitInv, StepInv, PTL DEF Spec

\* Every variable keeps its type, and a caller's window ends with its call.
THEOREM WindowTypeCorrect == Spec => []TypeOK
<1>1. WindowInv => TypeOK
  BY DEF WindowInv
<1> QED BY <1>1, InvAlways, PTL

\* No window turns on what its owner had left off (withAuditDisabled).
THEOREM WindowsNeverTurnOn == Spec => []NeverTurnedOn
<1>1. WindowInv => NeverTurnedOn
  BY DEF WindowInv, Justified, NeverTurnedOn
<1> QED BY <1>1, InvAlways, PTL

\* Once every call is over, what is to be on is on, but for the excuses
\* (restoreWindow on a context of its own).
THEOREM WindowsNeverLeaveOff == Spec => []NeverLeftOff
<1>1. WindowInv => NeverLeftOff
  BY DEF WindowInv, Covered, Owed, Sure, Pending, NeverLeftOff, Settled
<1> QED BY <1>1, InvAlways, PTL

\* What is left off is left off with an error.
THEOREM WindowsNeverSilent == Spec => []NeverSilentlyOff
<1>1. WindowInv => NeverSilentlyOff
  BY DEF WindowInv, Silence, Owed, Pending, NeverSilentlyOff, Settled
<1> QED BY <1>1, InvAlways, PTL

-----------------------------------------------------------------------------
(* The files it writes, and their reads.                                       *)

LEMMA Bounds ==
    /\ MaxFiles \in Nat \ {0} /\ MaxBuffers \in Nat \ {0}
    /\ MaxEvents \in Nat \ {0} /\ Kept \in Nat \ {0}
    /\ Sizes \subseteq 0..MaxEvents /\ Maxes \subseteq Nat
  BY FileAssumption

-----------------------------------------------------------------------------
(* Positions and events, in the order the server reads them.                   *)

LEMMA PositionEq ==
    ASSUME NEW a \in Position, NEW b \in Position
    PROVE  a = b <=> a.file = b.file /\ a.offset = b.offset
  BY DEF Position

LEMMA EventEq ==
    ASSUME NEW d \in Event, NEW e \in Event
    PROVE  d = e <=> d.file = e.file /\ d.offset = e.offset /\ d.at = e.at
  BY DEF Event

LEMMA Fields ==
    /\ \A f, o \in Nat : At(f, o) \in Position /\ At(f, o).file = f /\ At(f, o).offset = o
    /\ \A a \in Position : a.file \in Nat /\ a.offset \in Nat
    /\ \A e \in Event :
        /\ e.file \in Nat /\ e.offset \in Nat /\ e.at \in Nat
        /\ Buffer(e) \in Position /\ Buffer(e).file = e.file /\ Buffer(e).offset = e.offset
    /\ \A b \in Position :
        /\ LastOf(b) \in Event
        /\ LastOf(b).file = b.file /\ LastOf(b).offset = b.offset /\ LastOf(b).at = MaxEvents
    /\ Start \in Position /\ Start.file = 0 /\ Start.offset = 0
  BY Bounds DEF At, Position, Event, Buffer, LastOf, Start

LEMMA SameBuffer ==
    ASSUME NEW d \in Event, NEW e \in Event
    PROVE  Buffer(d) = Buffer(e) <=> d.file = e.file /\ d.offset = e.offset
  BY Fields, PositionEq

LEMMA BeforeIs ==
    ASSUME NEW d \in Event, NEW e \in Event
    PROVE  Before(d, e) <=> \/ d.file < e.file
                            \/ d.file = e.file /\ d.offset < e.offset
                            \/ d.file = e.file /\ d.offset = e.offset /\ d.at < e.at
  BY SameBuffer DEF Before, Precedes

LEMMA BeforeOrder ==
    /\ \A c, d, e \in Event : Before(c, d) /\ Before(d, e) => Before(c, e)
    /\ \A d, e \in Event : Before(d, e) \/ d = e \/ Before(e, d)
    /\ \A d \in Event : ~Before(d, d)
<1>1. ASSUME NEW c \in Event, NEW d \in Event, NEW e \in Event, Before(c, d), Before(d, e)
      PROVE  Before(c, e)
  <2>1. c.file \in Nat /\ c.offset \in Nat /\ c.at \in Nat
    BY Fields
  <2>2. d.file \in Nat /\ d.offset \in Nat /\ d.at \in Nat
    BY Fields
  <2>3. e.file \in Nat /\ e.offset \in Nat /\ e.at \in Nat
    BY Fields
  <2> QED BY <1>1, <2>1, <2>2, <2>3, BeforeIs
<1>2. ASSUME NEW d \in Event, NEW e \in Event PROVE Before(d, e) \/ d = e \/ Before(e, d)
  <2>1. d.file \in Nat /\ d.offset \in Nat /\ d.at \in Nat
    BY Fields
  <2>2. e.file \in Nat /\ e.offset \in Nat /\ e.at \in Nat
    BY Fields
  <2> QED BY <2>1, <2>2, BeforeIs, EventEq
<1>3. ASSUME NEW d \in Event PROVE ~Before(d, d)
  <2>1. d.file \in Nat /\ d.offset \in Nat /\ d.at \in Nat
    BY Fields
  <2> QED BY <2>1, BeforeIs
<1> QED BY <1>1, <1>2, <1>3

LEMMA BufferOrder ==
    ASSUME NEW b \in Position, NEW d \in Event, NEW e \in Event
    PROVE  /\ Precedes(Buffer(d), e) => Before(d, e)
           /\ Before(d, e) => Buffer(d) = Buffer(e) \/ Precedes(Buffer(d), e)
           /\ Precedes(b, d) /\ Before(d, e) => Precedes(b, e)
           /\ ~Precedes(b, d) /\ Precedes(b, e) => Before(d, e)
           /\ Before(d, e) => ~Precedes(Buffer(e), d)
           /\ e.at <= MaxEvents => (Before(LastOf(b), e) <=> Precedes(b, e))
           /\ ~Precedes(b, b)
<1>1. b.file \in Nat /\ b.offset \in Nat /\ MaxEvents \in Nat
  BY Fields, Bounds
<1>2. d.file \in Nat /\ d.offset \in Nat /\ d.at \in Nat
  BY Fields
<1>3. e.file \in Nat /\ e.offset \in Nat /\ e.at \in Nat
  BY Fields
<1>4. Buffer(d).file = d.file /\ Buffer(d).offset = d.offset
  BY Fields
<1>5. Buffer(e).file = e.file /\ Buffer(e).offset = e.offset
  BY Fields
<1>6. e.at <= MaxEvents => (Before(LastOf(b), e) <=> Precedes(b, e))
  <2>1. /\ LastOf(b) \in Event
        /\ LastOf(b).file = b.file /\ LastOf(b).offset = b.offset /\ LastOf(b).at = MaxEvents
    BY Fields
  <2> QED BY <1>1, <1>3, <2>1, BeforeIs DEF Precedes
<1> QED BY <1>1, <1>2, <1>3, <1>4, <1>5, <1>6, BeforeIs, SameBuffer DEF Precedes

-----------------------------------------------------------------------------
(* Types.                                                                      *)

LEMMA InitTyped == FileInit => FileTypeOK
<1>1. At(1, 0) \in Position
  BY Fields
<1>2. LastOf(Start) \in Event /\ Start \in Position
  BY Fields
<1> SUFFICES ASSUME FileInit PROVE FileTypeOK
  OBVIOUS
<1>3. last \in Position /\ sent \in Event /\ most \in Nat
  BY <1>1, <1>2 DEF FileInit
<1>4. listed \in Position /\ buffer \in Position /\ cursor \in Position /\ upTo \in Position
  BY <1>2 DEF FileInit
<1>5. byHand \in BOOLEAN /\ reading \in BOOLEAN
  BY DEF FileInit
<1>6. events \subseteq Event /\ out \subseteq Event /\ pending \subseteq Event /\ got \subseteq Event
  BY DEF FileInit
<1>7. deleted \subseteq Nat
  BY DEF FileInit
<1> QED BY <1>3, <1>4, <1>5, <1>6, <1>7 DEF FileTypeOK

LEMMA StepTyped == FileTypeOK /\ [FileNext]_file => FileTypeOK'
<1> SUFFICES ASSUME FileTypeOK, [FileNext]_file PROVE FileTypeOK'
  OBVIOUS
<1>1. ASSUME NEW n \in Sizes, WriteBuffer(n) PROVE FileTypeOK'
  <2>0. last.file \in Nat /\ last.offset + 1 \in Nat /\ n \in Nat
    BY Fields, Bounds DEF FileTypeOK
  <2>1. At(last.file, last.offset + 1) \in Position
    BY <2>0, Fields
  <2>2. {[file |-> last.file, offset |-> last.offset + 1, at |-> i] : i \in 1..n} \subseteq Event
    BY <2>0 DEF Event
  <2>3. last' \in Position
    BY <1>1, <2>1 DEF WriteBuffer
  <2>4. events' \subseteq Event
    <3> DEFINE New == {[file |-> last.file, offset |-> last.offset + 1, at |-> i] : i \in 1..n}
    <3>1. events' = events \cup New
      BY <1>1 DEF WriteBuffer
    <3>2. events \subseteq Event
      BY DEF FileTypeOK
    <3>3. New \subseteq Event
      BY <2>2
    <3> HIDE DEF New
    <3> QED BY <3>1, <3>2, <3>3
  <2> QED BY <1>1, <2>3, <2>4 DEF WriteBuffer, FileTypeOK, read, caller
<1>2. CASE RollOver
  <2>1. last.file \in Nat
    BY Fields DEF FileTypeOK
  <2>2. At(last.file + 1, 0) \in Position
    BY <2>1, Fields
  <2>3. deleted' \subseteq Nat
    <3> DEFINE Old == {f \in 1..last.file : f + Kept <= last.file + 1}
    <3>1. deleted' = deleted \cup Old
      BY <1>2 DEF RollOver
    <3>2. deleted \subseteq Nat /\ Old \subseteq Nat
      BY <2>1 DEF FileTypeOK
    <3> HIDE DEF Old
    <3> QED BY <3>1, <3>2
  <2>4. last' \in Position
    BY <1>2, <2>2 DEF RollOver
  <2> QED BY <1>2, <2>3, <2>4 DEF RollOver, FileTypeOK, read, caller
<1>3. ASSUME NEW f \in 1..MaxFiles, DeleteByHand(f) PROVE FileTypeOK'
  <2>1. f \in Nat /\ deleted \subseteq Nat
    BY Bounds DEF FileTypeOK
  <2>2. deleted' \subseteq Nat
    BY <1>3, <2>1 DEF DeleteByHand
  <2>3. byHand' \in BOOLEAN
    BY <1>3 DEF DeleteByHand
  <2> QED BY <1>3, <2>2, <2>3 DEF DeleteByHand, FileTypeOK, read, caller
<1>4. CASE Query
  BY <1>4, Fields, Bounds DEF Query, FileTypeOK, session, caller
<1>5. CASE FileGone
  BY <1>5, Fields DEF FileGone, ReadOver, FileTypeOK, session
<1>6. CASE RowsEnd
  BY <1>6, Fields DEF RowsEnd, Returns, ReadOver, FileTypeOK, session
<1>7. CASE ReadFails
  BY <1>7, Fields DEF ReadFails, ReadOver, FileTypeOK, session
<1>8. ASSUME NEW e \in events, Row(e) PROVE FileTypeOK'
  BY <1>8, Fields DEF Row, FileTypeOK, session, caller
<1>9. ASSUME NEW e \in events, NextBuffer(e) PROVE FileTypeOK'
  BY <1>9, Fields DEF NextBuffer, FileTypeOK, session, caller
<1>10. ASSUME NEW e \in events, Full(e) PROVE FileTypeOK'
  BY <1>10, Fields DEF Full, Returns, ReadOver, FileTypeOK, session
<1>11. CASE UNCHANGED file
  BY <1>11 DEF file, session, read, caller, FileTypeOK
<1> QED BY <1>1, <1>2, <1>3, <1>4, <1>5, <1>6, <1>7, <1>8, <1>9, <1>10, <1>11 DEF FileNext

\* The variables have the types FileTypeOK gives them (XEvents.ReadFile's cursor,
\* buffers and events).
THEOREM FileTypeCorrect == FileSpec => []FileTypeOK
  BY InitTyped, StepTyped, PTL DEF FileSpec

-----------------------------------------------------------------------------
(* What is written and deleted, and where a read stands.                       *)

\* Nothing is ahead of the session, and of the file it writes nothing is deleted.
Written ==
    /\ last.file > 0
    /\ \A e \in events : e.file > 0 /\ e.at <= MaxEvents /\ ~Precedes(last, e)
    /\ \A f \in deleted : 0 < f /\ f < last.file
    /\ out \subseteq events /\ pending \subseteq events /\ got \subseteq events
    /\ ~Precedes(last, cursor) /\ ~Precedes(last, listed) /\ ~Precedes(last, upTo)

\* What a read holds is behind the last row it was sent, and after the cursor.
Stands ==
    /\ ~reading => buffer = Start /\ out = {} /\ pending = {}
    /\ buffer = Start => out = {} /\ pending = {}
    /\ reading /\ buffer = Start => sent = LastOf(cursor)
    /\ buffer # Start => sent \in events /\ buffer = Buffer(sent) /\ Precedes(cursor, sent)
    /\ \A e \in out \cup pending : ~Before(sent, e)

\* Whether it is the first row or not, the next comes after the cursor, and its
\* buffer is then the one being read.
LEMMA NextRow ==
    ASSUME FileTypeOK, Written, Stands, reading, NEW e \in events, Sends(e)
    PROVE  /\ e \in Event /\ Buffer(e) # Start
           /\ Precedes(cursor, e)
           /\ \A d \in out \cup pending : Before(d, e)
<1>1. e \in Event /\ cursor \in Position /\ sent \in Event
  BY DEF FileTypeOK
<1>2. Before(sent, e) /\ e.at <= MaxEvents /\ e.file > 0
  BY DEF Sends, Written
<1>3. Buffer(e) # Start
  BY <1>1, <1>2, Fields
<1>4. Precedes(cursor, e)
  <2>1. CASE buffer = Start
    BY <2>1, <1>1, <1>2, BufferOrder DEF Stands
  <2>2. CASE buffer # Start
    BY <2>2, <1>1, <1>2, BufferOrder DEF Stands
  <2> QED BY <2>1, <2>2
<1>5. ASSUME NEW d \in out \cup pending PROVE Before(d, e)
  <2>1. d \in Event /\ ~Before(sent, d)
    BY DEF FileTypeOK, Stands
  <2>2. d = sent \/ Before(d, sent)
    BY <2>1, <1>1, BeforeOrder
  <2> QED BY <2>1, <2>2, <1>1, <1>2, BeforeOrder
<1> QED BY <1>1, <1>3, <1>4, <1>5

LEMMA StepWritten == FileTypeOK /\ Written /\ Stands /\ [FileNext]_file => Written'
<1> SUFFICES ASSUME FileTypeOK, Written, Stands, [FileNext]_file PROVE Written'
  OBVIOUS
<1>0. /\ last \in Position /\ cursor \in Position /\ listed \in Position /\ upTo \in Position
      /\ events \subseteq Event
  BY DEF FileTypeOK
<1>1. ASSUME NEW n \in Sizes, WriteBuffer(n) PROVE Written'
  <2> DEFINE New == {[file |-> last.file, offset |-> last.offset + 1, at |-> i] : i \in 1..n}
  <2>1. last' = At(last.file, last.offset + 1) /\ events' = events \cup New
    BY <1>1 DEF WriteBuffer
  <2>2. last.file \in Nat /\ last.offset \in Nat /\ n \in Nat /\ n <= MaxEvents
    BY <1>0, Fields, Bounds
  <2>3. last'.file = last.file /\ last'.offset = last.offset + 1
    <3>1. last.offset + 1 \in Nat
      BY <2>2
    <3>2. last' = At(last.file, last.offset + 1)
      BY <1>1 DEF WriteBuffer
    <3> HIDE DEF New
    <3> QED BY <3>1, <3>2, <2>2, Fields
  <2>4. \A e \in New : e.file = last.file /\ e.offset = last.offset + 1 /\ e.at <= MaxEvents
    BY <2>2, Bounds
  <2> HIDE DEF New
  <2>5. ASSUME NEW e \in events' PROVE e.file > 0 /\ e.at <= MaxEvents /\ ~Precedes(last', e)
    <3>1. CASE e \in New
      BY <3>1, <2>2, <2>3, <2>4 DEF Precedes, Written
    <3>2. CASE e \in events
      <4>1. e.file \in Nat /\ e.offset \in Nat
        BY <3>2, <1>0, Fields
      <4> QED BY <3>2, <4>1, <2>2, <2>3 DEF Precedes, Written
    <3> QED BY <3>1, <3>2, <2>1
  <2>6. ASSUME NEW b \in Position, ~Precedes(last, b) PROVE ~Precedes(last', b)
    BY <2>6, <2>2, <2>3, Fields DEF Precedes
  <2> QED BY <1>0, <1>1, <2>1, <2>3, <2>5, <2>6 DEF WriteBuffer, Written, read, caller
<1>2. CASE RollOver
  <2>1. last.file \in Nat /\ last.offset \in Nat
    BY <1>0, Fields
  <2>2. last'.file = last.file + 1 /\ last'.offset = 0
    BY <1>2, <2>1, Fields DEF RollOver
  <2>3. ASSUME NEW e \in events PROVE e.file > 0 /\ e.at <= MaxEvents /\ ~Precedes(last', e)
    <3>1. e.file \in Nat /\ e.offset \in Nat
      BY <1>0, Fields
    <3> QED BY <3>1, <2>1, <2>2 DEF Precedes, Written
  <2>4. ASSUME NEW b \in Position, ~Precedes(last, b) PROVE ~Precedes(last', b)
    BY <2>4, <2>1, <2>2, Fields DEF Precedes
  <2>5. ASSUME NEW f \in deleted' PROVE 0 < f /\ f < last'.file
    <3>1. f \in deleted \/ f \in 1..last.file
      BY <1>2 DEF RollOver
    <3>2. CASE f \in deleted
      BY <3>2, <2>1, <2>2 DEF Written, FileTypeOK
    <3> QED BY <3>1, <3>2, <2>1, <2>2
  <2> QED BY <1>0, <1>2, <2>2, <2>1, <2>3, <2>4, <2>5 DEF RollOver, Written, read, caller
<1>3. ASSUME NEW f \in 1..MaxFiles, DeleteByHand(f) PROVE Written'
  <2>1. 0 < f /\ f < last.file
    BY <1>3, Bounds DEF DeleteByHand
  <2> QED BY <1>3, <2>1 DEF DeleteByHand, Written, read, caller
<1>4. CASE Query
  <2>1. ~Precedes(last, last)
    BY <1>0, Fields DEF Precedes
  <2> QED BY <1>4, <2>1 DEF Query, Written, session, caller
<1>5. ~Precedes(last, Start)
  <2>1. last.file \in Nat /\ last.file > 0 /\ Start.file = 0
    BY <1>0, Fields DEF Written
  <2> QED BY <2>1 DEF Precedes
<1>6. CASE FileGone
  BY <1>5, <1>6 DEF FileGone, ReadOver, Written, session
<1>7. ASSUME buffer # Start PROVE ~Precedes(last, buffer)
  <2>1. sent \in events /\ buffer = Buffer(sent) /\ sent \in Event
    BY <1>7 DEF Stands, FileTypeOK
  <2>2. ~Precedes(last, sent)
    BY <2>1 DEF Written
  <2>3. Buffer(sent).file = sent.file /\ Buffer(sent).offset = sent.offset
    BY <2>1, Fields
  <2> QED BY <2>1, <2>2, <2>3 DEF Precedes
<1>8. CASE RowsEnd
  <2>1. ~Precedes(last, IF buffer = Start THEN cursor ELSE buffer)
    BY <1>7 DEF Written
  <2> QED BY <1>5, <1>8, <2>1 DEF RowsEnd, Returns, ReadOver, Written, session
<1>9. CASE ReadFails
  BY <1>5, <1>9 DEF ReadFails, ReadOver, Written, session
<1>10. ASSUME NEW e \in events, Row(e) PROVE Written'
  BY <1>10 DEF Row, Written, session, caller
<1>11. ASSUME NEW e \in events, NextBuffer(e) PROVE Written'
  BY <1>11 DEF NextBuffer, Written, session, caller
<1>12. ASSUME NEW e \in events, Full(e) PROVE Written'
  BY <1>5, <1>7, <1>12 DEF Full, Returns, ReadOver, Written, session
<1>13. CASE UNCHANGED file
  BY <1>13 DEF file, session, read, caller, Written
<1> QED BY <1>1, <1>2, <1>3, <1>4, <1>6, <1>8, <1>9, <1>10, <1>11, <1>12, <1>13 DEF FileNext

LEMMA StepStands == FileTypeOK /\ Written /\ Stands /\ [FileNext]_file => Stands'
<1> SUFFICES ASSUME FileTypeOK, Written, Stands, [FileNext]_file PROVE Stands'
  OBVIOUS
<1>1. ASSUME NEW n \in Sizes, WriteBuffer(n) PROVE Stands'
  BY <1>1 DEF WriteBuffer, Stands, read, caller
<1>2. CASE RollOver
  BY <1>2 DEF RollOver, Stands, read, caller
<1>3. ASSUME NEW f \in 1..MaxFiles, DeleteByHand(f) PROVE Stands'
  BY <1>3 DEF DeleteByHand, Stands, read, caller
<1>4. CASE Query
  BY <1>4 DEF Query, Stands, session, caller
<1>5. CASE FileGone
  BY <1>5 DEF FileGone, ReadOver, Stands
<1>6. CASE RowsEnd
  BY <1>6 DEF RowsEnd, Returns, ReadOver, Stands
<1>7. CASE ReadFails
  BY <1>7 DEF ReadFails, ReadOver, Stands
<1>8. ASSUME NEW e \in events, Full(e) PROVE Stands'
  BY <1>8 DEF Full, Returns, ReadOver, Stands
<1>9. ASSUME NEW e \in events, Row(e) \/ NextBuffer(e) PROVE Stands'
  <2>1. reading /\ Sends(e)
    BY <1>9 DEF Row, NextBuffer
  <2>2. /\ e \in Event /\ Buffer(e) # Start /\ Precedes(cursor, e)
        /\ \A d \in out \cup pending : d \in Event /\ Before(d, e)
    BY <2>1, NextRow DEF FileTypeOK
  <2>3. /\ sent' = e /\ buffer' = Buffer(e) /\ reading' = reading
        /\ cursor' = cursor /\ events' = events
    BY <1>9 DEF Row, NextBuffer, NewBuffer, session, caller
  <2>4. out' \cup pending' = out \cup pending \cup {e}
    BY <1>9 DEF Row, NextBuffer
  <2>5. ASSUME NEW d \in out' \cup pending' PROVE ~Before(e, d)
    <3>1. CASE d = e
      BY <3>1, <2>2, BeforeOrder
    <3>2. CASE d \in out \cup pending
      BY <3>2, <2>2, BeforeOrder
    <3> QED BY <3>1, <3>2, <2>4
  <2> QED BY <2>1, <2>2, <2>3, <2>5 DEF Stands
<1>10. CASE UNCHANGED file
  BY <1>10 DEF file, session, read, caller, Stands
<1> QED BY <1>1, <1>2, <1>3, <1>4, <1>5, <1>6, <1>7, <1>8, <1>9, <1>10 DEF FileNext

-----------------------------------------------------------------------------
(* "Nothing is read twice": while files go in order, what was returned is      *)
(* behind the cursor, or is in files that are gone.                            *)

Once ==
    ~byHand =>
        /\ \A f \in deleted : \A g \in 1..f : g \in deleted
        /\ cursor = Start => \A g \in got : g.file \in deleted
        /\ cursor # Start => \A g \in got : ~Precedes(cursor, g)
        /\ buffer # Start => \A g \in got : Before(g, sent)
        /\ \A e \in out \cup pending, g \in got : Before(g, e)

\* A row comes after everything returned before.
LEMMA RowIsNew ==
    ASSUME FileTypeOK, Written, Stands, Once, reading, ~byHand,
           NEW e \in events, Sends(e), NEW g \in got
    PROVE  Before(g, e)
<1>1. e \in Event /\ g \in Event /\ sent \in Event /\ cursor \in Position
  BY DEF FileTypeOK
<1>2. CASE buffer # Start
  BY <1>1, <1>2, BeforeOrder DEF Once, Sends
<1>3. CASE buffer = Start /\ cursor # Start
  <2>1. Precedes(cursor, e) /\ ~Precedes(cursor, g)
    BY <1>3, NextRow DEF Once
  <2> QED BY <2>1, <1>1, BufferOrder
<1>4. CASE buffer = Start /\ cursor = Start
  <2>1. e.file \in Nat /\ g.file \in Nat /\ e.file > 0 /\ g.file \in deleted
    BY <1>1, <1>4, Fields DEF Once, Written
  <2>2. sent.file = 0
    BY <1>4, Fields DEF Stands
  <2>3. e.file \notin deleted
    BY <2>1, <2>2 DEF Sends
  <2>4. ~(e.file <= g.file)
    BY <2>1, <2>3 DEF Once
  <2> QED BY <2>1, <2>4, <1>1, BeforeIs
<1> QED BY <1>2, <1>3, <1>4

\* A cursor taken from the last complete buffer has what is returned behind it.
LEMMA ReturnedIsBehind ==
    ASSUME FileTypeOK, Written, Stands, Once, ~byHand, buffer # Start,
           NEW g \in got \cup out \cup pending
    PROVE  ~Precedes(buffer, g)
<1>1. g \in Event /\ sent \in Event /\ buffer = Buffer(sent) /\ cursor \in Position
  BY DEF FileTypeOK, Stands
<1>2. CASE g \in got
  BY <1>1, <1>2, BufferOrder DEF Once
<1>3. CASE g \in out \cup pending
  BY <1>1, <1>3, BufferOrder DEF Stands
<1> QED BY <1>2, <1>3

\* The files lost with the cursor's are all those anything was returned from.
LEMMA LostIsReturned ==
    ASSUME FileTypeOK, Written, Stands, Once, ~byHand, FileGone, NEW g \in got
    PROVE  g.file \in deleted
<1>1. CASE cursor = Start
  BY <1>1 DEF Once
<1>2. CASE cursor # Start
  <2>1. /\ g \in Event /\ g.file \in Nat /\ g.file > 0 /\ cursor \in Position /\ cursor.file \in Nat
        /\ sent \in Event /\ sent.file \in Nat /\ deleted \subseteq Nat
    BY Fields DEF FileTypeOK, Written
  <2>2. g.file <= cursor.file
    BY <1>2, <2>1, Fields DEF Once, Precedes
  <2>3. PICK f \in deleted : cursor.file <= f
    <3>1. CASE cursor.file \in deleted
      BY <3>1, <2>1
    <3>2. CASE reading /\ \E f \in deleted : sent.file <= f
      <4>1. cursor.file <= sent.file
        <5>1. CASE buffer = Start
          BY <5>1, <3>2, <2>1, Fields DEF Stands
        <5>2. CASE buffer # Start
          BY <5>2, <2>1 DEF Stands, Precedes
        <5> QED BY <5>1, <5>2
      <4> QED BY <4>1, <3>2, <2>1
    <3> QED BY <3>1, <3>2 DEF FileGone
  <2>4. g.file \in 1..f
    BY <2>1, <2>2, <2>3
  <2> QED BY <2>3, <2>4 DEF Once
<1> QED BY <1>1, <1>2

LEMMA StepOnce == FileTypeOK /\ Written /\ Stands /\ Once /\ [FileNext]_file => Once'
<1> SUFFICES ASSUME FileTypeOK, Written, Stands, Once, [FileNext]_file, ~byHand' PROVE Once'
  BY DEF Once
<1>1. ASSUME NEW n \in Sizes, WriteBuffer(n) PROVE Once'
  BY <1>1 DEF WriteBuffer, Once, read, caller
<1>2. CASE RollOver
  <2>1. last.file \in Nat /\ deleted \subseteq Nat /\ ~byHand
    BY <1>2, Fields DEF FileTypeOK, RollOver
  <2>2. deleted \subseteq deleted'
    BY <1>2 DEF RollOver
  <2>3. ASSUME NEW f \in deleted', NEW g \in 1..f PROVE g \in deleted'
    <3>1. CASE f \in deleted
      BY <3>1, <2>1, <2>2 DEF Once
    <3>2. CASE f \in 1..last.file /\ f + Kept <= last.file + 1
      <4>1. g \in 1..last.file /\ g + Kept <= last.file + 1
        BY <3>2, <2>1, Bounds
      <4> QED BY <4>1, <1>2 DEF RollOver
    <3> QED BY <3>1, <3>2, <1>2 DEF RollOver
  <2> QED BY <1>2, <2>1, <2>2, <2>3 DEF RollOver, Once, read, caller
<1>3. ASSUME NEW f \in 1..MaxFiles, DeleteByHand(f) PROVE Once'
  BY <1>3 DEF DeleteByHand
<1>4. CASE Query
  BY <1>4 DEF Query, Once, Stands, session, caller
<1>5. CASE FileGone
  <2>1. \A g \in got : g.file \in deleted
    BY <1>5, LostIsReturned DEF FileGone, ReadOver, session
  <2> QED BY <1>5, <2>1 DEF FileGone, ReadOver, Once, session
<1>6. ASSUME Returns(out \cup pending, IF buffer = Start THEN cursor ELSE buffer) PROVE Once'
  <2>1. ~byHand /\ got' = got \cup out \cup pending /\ deleted' = deleted
    BY <1>6 DEF Returns, ReadOver, session
  <2>2. CASE buffer = Start
    BY <2>2, <2>1, <1>6 DEF Returns, ReadOver, Once, Stands
  <2>3. CASE buffer # Start
    <3>1. \A g \in got' : ~Precedes(buffer, g)
      BY <2>1, <2>3, ReturnedIsBehind
    <3> QED BY <2>1, <2>3, <3>1, <1>6 DEF Returns, ReadOver, Once
  <2> QED BY <2>2, <2>3
<1>7. CASE RowsEnd
  BY <1>6, <1>7 DEF RowsEnd
<1>8. CASE ReadFails
  BY <1>8 DEF ReadFails, ReadOver, Once, session
<1>9. ASSUME NEW e \in events, Full(e) PROVE Once'
  BY <1>6, <1>9 DEF Full
<1>10. ASSUME NEW e \in events, Row(e) \/ NextBuffer(e) PROVE Once'
  <2>1. reading /\ Sends(e) /\ sent' = e /\ UNCHANGED <<cursor, got, deleted, byHand>>
    BY <1>10 DEF Row, NextBuffer, session, caller
  <2>2. out' \cup pending' = out \cup pending \cup {e}
    BY <1>10 DEF Row, NextBuffer
  <2>3. \A g \in got : Before(g, e)
    BY <2>1, RowIsNew
  <2> QED BY <2>1, <2>2, <2>3 DEF Once
<1>11. CASE UNCHANGED file
  BY <1>11 DEF file, session, read, caller, Once
<1> QED BY <1>1, <1>2, <1>3, <1>4, <1>5, <1>7, <1>8, <1>9, <1>10, <1>11 DEF FileNext

-----------------------------------------------------------------------------
(* "Or missed": what is there and behind the last row sent was returned or is  *)
(* about to be.                                                                *)

Seen ==
    /\ NoneMissed
    /\ reading => \A e \in events :
          e.file \notin deleted /\ ~Before(sent, e) => e \in got \cup out \cup pending

\* A cursor that a read returns has none behind it that it did not return.
LEMMA NoneSkipped ==
    ASSUME FileTypeOK, Seen, Stands, reading, buffer # Start,
           \A d \in events : Before(sent, d) /\ Buffer(d) = Buffer(sent) => d.file \in deleted,
           NEW e \in events, e.file \notin deleted, ~Precedes(buffer, e)
    PROVE  e \in got \cup out \cup pending
<1>1. e \in Event /\ sent \in Event /\ buffer = Buffer(sent) /\ cursor \in Position
  BY DEF FileTypeOK, Stands
<1>2. ~Before(sent, e)
  BY <1>1, BufferOrder
<1> QED BY <1>2 DEF Seen

LEMMA StepSeen == FileTypeOK /\ Written /\ Stands /\ Seen /\ [FileNext]_file => Seen'
<1> SUFFICES ASSUME FileTypeOK, Written, Stands, Seen, [FileNext]_file PROVE Seen'
  OBVIOUS
<1>0. /\ events \subseteq Event /\ sent \in Event /\ last \in Position /\ last.file \in Nat
      /\ last.offset \in Nat /\ cursor \in Position /\ upTo \in Position /\ buffer \in Position
  BY Fields DEF FileTypeOK
<1>1. ASSUME NEW n \in Sizes, WriteBuffer(n) PROVE Seen'
  <2> DEFINE New == {[file |-> last.file, offset |-> last.offset + 1, at |-> i] : i \in 1..n}
  <2>1. events' = events \cup New /\ UNCHANGED <<deleted, read, caller>>
    BY <1>1 DEF WriteBuffer
  <2>2. \A e \in New : e.file = last.file /\ e.offset = last.offset + 1
    OBVIOUS
  <2> HIDE DEF New
  <2>3. ASSUME NEW e \in New, NEW b \in Position, ~Precedes(last, b) PROVE Precedes(b, e)
    <3>1. b.file \in Nat /\ b.offset \in Nat
      BY Fields
    <3> QED BY <2>2, <2>3, <1>0, <3>1 DEF Precedes
  <2>4. ASSUME NEW e \in New, reading PROVE Before(sent, e)
    <3>1. e \in Event
      BY <2>1, <1>1, StepTyped DEF FileNext, FileTypeOK
    <3>2. ~Precedes(last, Buffer(sent))
      <4>1. Buffer(sent).file = sent.file /\ Buffer(sent).offset = sent.offset
        BY <1>0, Fields
      <4>2. ~Precedes(last, sent)
        <5>1. CASE buffer = Start
          <6>1. sent.file = cursor.file /\ sent.offset = cursor.offset
            BY <5>1, <2>4, <1>0, Fields DEF Stands
          <6> QED BY <6>1 DEF Written, Precedes
        <5>2. CASE buffer # Start
          BY <5>2 DEF Stands, Written
        <5> QED BY <5>1, <5>2
      <4> QED BY <4>1, <4>2 DEF Precedes
    <3>3. Precedes(Buffer(sent), e)
      BY <2>3, <3>2, <1>0, Fields
    <3> QED BY <3>1, <3>3, <1>0, BufferOrder
  <2>5. NoneMissed'
    BY <1>0, <2>1, <2>3 DEF NoneMissed, Seen, Written, caller
  <2> QED BY <2>1, <2>4, <2>5 DEF Seen, read, caller
<1>2. CASE RollOver
  BY <1>2 DEF RollOver, Seen, NoneMissed, read, caller
<1>3. ASSUME NEW f \in 1..MaxFiles, DeleteByHand(f) PROVE Seen'
  BY <1>3 DEF DeleteByHand, Seen, NoneMissed, read, caller
<1>4. CASE Query
  <2>1. UNCHANGED <<events, deleted, cursor, got, upTo>> /\ sent' = LastOf(cursor)
    BY <1>4 DEF Query, session, caller
  <2>2. ASSUME NEW e \in events, e.file \notin deleted, ~Before(LastOf(cursor), e) PROVE e \in got
    <3>1. ~Precedes(cursor, e)
      BY <2>2, <1>0, BufferOrder DEF Written
    <3> QED BY <2>2, <3>1 DEF Seen, NoneMissed
  <2> QED BY <2>1, <2>2 DEF Seen, NoneMissed
<1>5. CASE FileGone
  <2>1. \A e \in events : Precedes(Start, e)
    BY <1>0, Fields DEF Written, Precedes
  <2> QED BY <1>5, <2>1 DEF FileGone, ReadOver, Seen, NoneMissed, session
<1>6. CASE RowsEnd
  <2>1. /\ reading /\ ~reading' /\ got' = got \cup out \cup pending /\ upTo' = listed
        /\ cursor' = IF buffer = Start THEN cursor ELSE buffer
        /\ UNCHANGED <<events, deleted>>
    BY <1>6 DEF RowsEnd, Returns, ReadOver, session
  <2>2. \A d \in events : Before(sent, d) =>
            Buffer(d) # Buffer(sent) /\ (d.file \in deleted \/ Precedes(listed, d))
    BY <1>6 DEF RowsEnd
  <2>3. ASSUME NEW e \in events, e.file \notin deleted, ~Precedes(listed, e)
        PROVE  e \in got \cup out \cup pending
    BY <2>1, <2>2, <2>3 DEF Seen
  <2>4. ASSUME NEW e \in events, e.file \notin deleted, ~Precedes(cursor', e)
        PROVE  e \in got \cup out \cup pending
    <3>1. CASE buffer = Start
      BY <3>1, <2>1, <2>4 DEF Seen, NoneMissed
    <3>2. CASE buffer # Start
      BY <3>2, <2>1, <2>2, <2>4, NoneSkipped
    <3> QED BY <3>1, <3>2
  <2> QED BY <2>1, <2>3, <2>4 DEF Seen, NoneMissed
<1>7. CASE ReadFails
  BY <1>7 DEF ReadFails, ReadOver, Seen, NoneMissed, session
<1>8. ASSUME NEW r \in events, Full(r) PROVE Seen'
  <2>1. /\ reading /\ ~reading' /\ got' = got \cup out \cup pending /\ buffer # Start
        /\ cursor' = buffer /\ UNCHANGED <<events, deleted, upTo>> /\ Sends(r)
        /\ Buffer(r) # buffer
    BY <1>8 DEF Full, NewBuffer, Returns, ReadOver, session
  <2>2. ASSUME NEW d \in events, Before(sent, d), Buffer(d) = Buffer(sent) PROVE d.file \in deleted
    <3>1. /\ r \in Event /\ d \in Event /\ Buffer(r) # Buffer(sent) /\ Before(sent, r)
      BY <1>0, <2>1 DEF Stands, Sends
    <3>2. Before(d, r)
      BY <3>1, <2>2, <1>0, BeforeIs, SameBuffer, Fields
    <3> QED BY <2>1, <2>2, <3>2 DEF Sends
  <2>3. ASSUME NEW e \in events, e.file \notin deleted, ~Precedes(buffer, e)
        PROVE  e \in got \cup out \cup pending
    BY <2>1, <2>2, <2>3, NoneSkipped
  <2> QED BY <2>1, <2>3 DEF Seen, NoneMissed
<1>9. ASSUME NEW r \in events, Row(r) \/ NextBuffer(r) PROVE Seen'
  <2>1. /\ reading /\ reading' /\ Sends(r) /\ sent' = r /\ r \in Event
        /\ UNCHANGED <<events, deleted, cursor, got, upTo>>
    BY <1>0, <1>9 DEF Row, NextBuffer, session, caller
  <2>2. out' \cup pending' = out \cup pending \cup {r}
    BY <1>9 DEF Row, NextBuffer
  <2>3. ASSUME NEW e \in events, e.file \notin deleted, ~Before(r, e)
        PROVE  e \in got \cup out \cup pending \cup {r}
    <3>1. e = r \/ Before(e, r)
      BY <2>1, <2>3, <1>0, BeforeOrder
    <3>2. CASE Before(sent, e) /\ Before(e, r)
      BY <3>2, <2>1, <2>3 DEF Sends
    <3>3. CASE ~Before(sent, e)
      BY <3>3, <2>1, <2>3 DEF Seen
    <3> QED BY <3>1, <3>2, <3>3
  <2> QED BY <2>1, <2>2, <2>3 DEF Seen, NoneMissed
<1>10. CASE UNCHANGED file
  BY <1>10 DEF file, session, read, caller, Seen, NoneMissed
<1> QED BY <1>1, <1>2, <1>3, <1>4, <1>5, <1>6, <1>7, <1>8, <1>9, <1>10 DEF FileNext

-----------------------------------------------------------------------------

FileInv == FileTypeOK /\ Written /\ Stands /\ Once /\ Seen

LEMMA InitReads == FileInit => FileInv
<1> SUFFICES ASSUME FileInit PROVE FileInv
  OBVIOUS
<1>1. FileTypeOK
  BY InitTyped
<1>2. last.file = 1 /\ last.offset = 0
  BY Fields DEF FileInit
<1>3. ~Precedes(last, Start)
  BY <1>2, Fields DEF Precedes
<1>4. Written
  BY <1>2, <1>3 DEF FileInit, Written
<1>5. Stands /\ Once /\ Seen
  BY DEF FileInit, Stands, Once, Seen, NoneMissed
<1> QED BY <1>1, <1>4, <1>5 DEF FileInv

\* Nothing is read twice or missed, however reads, rollover, deletions by hand and
\* failures interleave (XEvents.ReadFile's cursor).
THEOREM EveryEventOnce == FileSpec => []ReadsResume
<1>1. FileInv /\ [FileNext]_file => FileInv'
  BY StepTyped, StepWritten, StepStands, StepOnce, StepSeen DEF FileInv
<1>2. FileInv => ReadsResume
  BY DEF FileInv, Once, Seen, ReadsResume, ReadOnce
<1> QED BY InitReads, <1>1, <1>2, PTL DEF FileSpec
=============================================================================
