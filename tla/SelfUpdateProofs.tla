-------------------------- MODULE SelfUpdateProofs --------------------------
(***************************************************************************)
(* Proofs about SelfUpdate: whatever the versions, the bounds and the      *)
(* interleaving, the path holds a whole binary, a dismissed version stays  *)
(* out and there is a way back.                                            *)
(***************************************************************************)
EXTENDS SelfUpdate, TLAPS

\* What a process does with its swappers, and what they hold.
Shape ==
    /\ agent = "down" => \A p \in Swappers : stage[p] = "idle"
    /\ agent = "guard" => \A p \in Appliers : stage[p] = "idle"
    /\ agent = "up" => stage["guard"] = "idle"
    /\ stage["guard"] # "fetching"
    /\ \A p \in Appliers : stage[p] \notin {"removing", "clearing"}
    /\ \A p \in Swappers :
        /\ stage[p] \in {"fetching", "prevtmp", "new"} => data[p] # NoFile
        /\ Swapping(p) <=> cur[p] # NoFile
        /\ fd[p] # "none" => step[p] = "write"
        /\ fd[p] \in {"prevtmp", "prev"} => stage[p] = "prevtmp"
        /\ fd[p] \in {"new", "bin"} => stage[p] = "new"
        /\ step[p] # "open" => Swapping(p)

\* A swapper that no other one can disturb: the guard always, an Apply as
\* long as no two swaps went on at once.
Alone(p) == p = "guard" \/ "overlap" \notin trouble

\* It writes to the file it opened, and renames what it wrote.
OwnFile ==
    \A p \in Swappers : Alone(p) /\ Swapping(p) =>
        /\ step[p] = "write" => fd[p] = stage[p]
        /\ step[p] = "rename" => file[stage[p]] = Payload(p)

\* Without an overlap everything a swapper reads and leaves is whole.
Whole ==
    "overlap" \notin trouble =>
        /\ \A p, q \in Swappers : Swapping(p) /\ Swapping(q) => p = q
        /\ \A p \in Swappers : data[p] # Torn /\ cur[p] # Torn
        /\ file["bin"] # Torn /\ file["prev"] # Torn

\* Until its swap is done, the guard's own version is the one installed.
GuardAtHome ==
    agent = "guard" /\ stage["guard"] \notin {"removing", "clearing"} => file["bin"] = run

\* No way leads back to a dismissed version: not .prev, nor what is on its
\* way there.
NoReturn ==
    "cut" \notin trouble =>
        /\ file["bin"] \notin dismissed
        /\ stage["guard"] # "removing" => file["prev"] \notin dismissed
        /\ data["guard"] \notin dismissed
        /\ \A p \in Swappers :
            /\ cur[p] \notin dismissed
            /\ fd[p] = "bin" => dismissed = {}
            /\ stage[p] = "prevtmp" /\ step[p] # "open" => file["prevtmp"] \notin dismissed

\* The only swap in the life of a process starts from the version it runs.
Returnable ==
    agent = "up" /\ trouble = {} =>
        /\ file["bin"] # run => file["prev"] = run
        /\ \A p \in Appliers : Swapping(p) =>
            /\ file["bin"] = run /\ cur[p] = run
            /\ stage[p] = "new" => file["prev"] = run

IInv == TypeOK /\ Shape /\ OwnFile /\ Whole /\ GuardAtHome /\ NoReturn /\ Returnable

-----------------------------------------------------------------------------
LEMMA ConstantTypes ==
    /\ MaxStarts \in Nat \ {0} /\ Window \in Nat \ {0} /\ RestartDelay \in Nat
    /\ MaxStops \in Nat /\ MaxFaults \in Nat
  BY TimeAssumption, BoundsAssumption

LEMMA InitInv == Init => IInv
  <1> USE VersionAssumption, ConstantTypes
  <1> SUFFICES ASSUME Init PROVE IInv
    OBVIOUS
  <1>1. 1 \in Versions
    BY DEF Versions
  <1>2. TypeOK
    <2>1. /\ file \in [Names -> Contents] /\ file["bin"] # NoFile
          /\ latest \in Versions /\ run \in Versions
      BY <1>1 DEF Init, Names, Contents, Versions
    <2>2. starts \in [Ages -> Nat] /\ health \in [Versions -> Healths]
      BY DEF Init, NoStarts
    <2>3. /\ stage \in [Swappers -> Stages] /\ step \in [Swappers -> {"open", "write", "rename"}]
          /\ data \in [Swappers -> Contents] /\ cur \in [Swappers -> Contents]
          /\ fd \in [Swappers -> Names \cup {"none"}]
      BY DEF Init, Stages, Contents
    <2>4. /\ agent \in {"down", "guard", "up"} /\ wait \in 0..RestartDelay
          /\ stops \in 0..MaxStops /\ faults \in 0..MaxFaults
          /\ dismissed \subseteq Versions /\ trouble \subseteq {"overlap", "again", "cut"}
      BY DEF Init
    <2>5. due \in BOOLEAN /\ first \in BOOLEAN
      BY DEF Init
    <2> QED
      BY <2>1, <2>2, <2>3, <2>4, <2>5 DEF TypeOK
  <1>3. Shape /\ OwnFile /\ Whole /\ GuardAtHome /\ Returnable
    BY <1>1 DEF Init, Shape, OwnFile, Whole, GuardAtHome, Returnable, Swapping, Swappers, Appliers, Names, Versions
  <1>4. NoReturn
    BY DEF Init, NoReturn, Swappers
  <1> QED
    BY <1>2, <1>3, <1>4 DEF IInv

\* Types are kept by every step.
LEMMA TypeStep == TypeOK /\ Shape /\ [Next]_vars => TypeOK'
  <1> USE VersionAssumption, ConstantTypes
          DEF TypeOK, Swappers, Appliers, disk, swap, budget, ghosts, Idle
  <1> SUFFICES ASSUME TypeOK, Shape, [Next]_vars PROVE TypeOK'
    OBVIOUS
  <1>0. ProcessGone => /\ stage' \in [Swappers -> Stages]
                        /\ step' \in [Swappers -> {"open", "write", "rename"}]
                        /\ data' \in [Swappers -> Contents]
                        /\ cur' \in [Swappers -> Contents]
                        /\ fd' \in [Swappers -> Names \cup {"none"}]
                        /\ due' \in BOOLEAN
    <2> SUFFICES ASSUME ProcessGone
                 PROVE  /\ stage' \in [Swappers -> Stages]
                        /\ step' \in [Swappers -> {"open", "write", "rename"}]
                        /\ data' \in [Swappers -> Contents]
                        /\ cur' \in [Swappers -> Contents]
                        /\ fd' \in [Swappers -> Names \cup {"none"}]
                        /\ due' \in BOOLEAN
      OBVIOUS
    <2>1. due' \in BOOLEAN
      BY DEF ProcessGone
    <2>2. stage' \in [Swappers -> Stages]
      BY DEF ProcessGone, Stages
    <2>3. data' \in [Swappers -> Contents] /\ cur' \in [Swappers -> Contents]
      BY DEF ProcessGone, Contents
    <2> QED
      BY <2>1, <2>2, <2>3 DEF ProcessGone
  <1>1. CASE Start
    BY <1>1 DEF Start, Versions
  <1>2. CASE StartFails
    BY <1>2 DEF StartFails
  <1>3. CASE Dies
    BY <1>0, <1>3 DEF Dies
  <1>4. CASE Kill
    BY <1>0, <1>4 DEF Kill
  <1>5. CASE RestartByHand \/ RestartDue
    <2>1. stops' \in 0..MaxStops
      BY <1>5 DEF RestartByHand, RestartDue
    <2>2. Stopped
      BY <1>5 DEF RestartByHand, RestartDue
    <2> QED
      BY <1>0, <2>1, <2>2 DEF Stopped
  <1>6. CASE RestartFails
    <2>1. faults' \in 0..MaxFaults
      BY <1>6 DEF RestartFails
    <2>2. due' \in BOOLEAN
      BY <1>6 DEF RestartFails
    <2> QED
      BY <1>6, <2>1, <2>2 DEF RestartFails
  <1>7. CASE Tick
    <2>1. starts' \in [Ages -> Nat]
      BY <1>7 DEF Tick, Ages
    <2> QED
      BY <1>7, <2>1 DEF Tick
  <1>8. CASE Publish
    BY <1>8 DEF Publish, Versions
  <1>9. ASSUME NEW p \in Appliers, Apply(p) PROVE TypeOK'
    <2>1. CASE Ask(p)
      BY <2>1 DEF Ask, Stages, Contents
    <2>2. CASE Fetched(p)
      BY <2>2 DEF Fetched, Stages, Contents, Names
    <2>3. CASE FetchFails(p)
      BY <2>3 DEF FetchFails, Stages, Contents
    <2> QED
      BY <1>9, <2>1, <2>2, <2>3 DEF Apply
  <1>10. ASSUME NEW p \in Swappers, SwapBinary(p) PROVE TypeOK'
    <2>1. CASE Open(p)
      BY <2>1 DEF Open, Swapping, Names, Contents
    <2>2. CASE Write(p)
      <3>1. Payload(p) \in Contents /\ Payload(p) # NoFile
        BY <2>2 DEF Write, Payload, Swapping, Shape
      <3> QED
        BY <2>2, <3>1 DEF Write, Names
    <2>3. CASE Rename(p)
      <3>1. Renamed(stage[p], Target(stage[p])) \in [Swappers -> Names \cup {"none"}]
        BY <2>3 DEF Rename, Renamed, Target, Swapping, Names
      <3>2. file' \in [Names -> Contents] /\ file'["bin"] # NoFile
        BY <2>3 DEF Rename, CanRename, Target, Swapping, Names, Contents
      <3>3. data' \in [Swappers -> Contents] /\ cur' \in [Swappers -> Contents]
        BY <2>3 DEF Rename, Contents
      <3>4. stage' \in [Swappers -> Stages] /\ step' \in [Swappers -> {"open", "write", "rename"}]
        BY <2>3 DEF Rename, Stages
      <3>5. dismissed' \subseteq Versions /\ due' \in BOOLEAN
        BY <2>3 DEF Rename
      <3> QED
        BY <2>3, <3>1, <3>2, <3>3, <3>4, <3>5 DEF Rename
    <2>4. CASE SwapFails(p)
      BY <2>4 DEF SwapFails, Stages, Contents
    <2> QED
      BY <1>10, <2>1, <2>2, <2>3, <2>4 DEF SwapBinary
  <1>11. CASE Check
    <2>1. starts' \in [Ages -> Nat]
      BY <1>11 DEF Check, Ages, NoStarts
    <2> QED
      BY <1>11, <2>1 DEF Check, Names, Stages
  <1>12. CASE RemovePrev
    <2>1. file' \in [Names -> Contents] /\ file'["bin"] # NoFile
      BY <1>12 DEF RemovePrev, Names, Contents
    <2>2. faults' \in 0..MaxFaults
      BY <1>12 DEF RemovePrev
    <2>3. stage' \in [Swappers -> Stages]
      BY <1>12 DEF RemovePrev, Stages
    <2>4. trouble' \subseteq {"overlap", "again", "cut"}
      BY <1>12 DEF RemovePrev
    <2> QED
      BY <1>12, <2>1, <2>2, <2>3, <2>4 DEF RemovePrev
  <1>13. CASE ClearStarts
    <2>1. starts' \in [Ages -> Nat]
      BY <1>13 DEF ClearStarts, NoStarts
    <2> QED
      BY <1>0, <1>13, <2>1 DEF ClearStarts
  <1>14. CASE UNCHANGED vars
    BY <1>14 DEF vars
  <1> QED
    BY <1>1, <1>2, <1>3, <1>4, <1>5, <1>6, <1>7, <1>8, <1>9, <1>10, <1>11, <1>12, <1>13, <1>14 DEF Next

\* The swappers keep to their stages.
LEMMA ShapeStep == TypeOK /\ Shape /\ [Next]_vars => Shape'
  <1> USE VersionAssumption
          DEF TypeOK, Shape, Swappers, Appliers, Swapping, disk, swap, budget, ghosts, ProcessGone, Idle
  <1> SUFFICES ASSUME TypeOK, Shape, [Next]_vars PROVE Shape'
    OBVIOUS
  <1>1. CASE Start
    BY <1>1 DEF Start
  <1>2. CASE StartFails
    BY <1>2 DEF StartFails
  <1>3. CASE Dies
    BY <1>3 DEF Dies
  <1>4. CASE Kill
    BY <1>4 DEF Kill
  <1>5. CASE RestartByHand \/ RestartDue
    BY <1>5 DEF RestartByHand, RestartDue, Stopped
  <1>6. CASE RestartFails
    BY <1>6 DEF RestartFails
  <1>7. CASE Tick
    BY <1>7 DEF Tick
  <1>8. CASE Publish
    BY <1>8 DEF Publish
  <1>9. ASSUME NEW p \in Appliers, Apply(p) PROVE Shape'
    <2>1. CASE Ask(p)
      BY <2>1 DEF Ask, Versions
    <2>2. CASE Fetched(p)
      BY <2>2 DEF Fetched
    <2>3. CASE FetchFails(p)
      BY <2>3 DEF FetchFails
    <2> QED
      BY <1>9, <2>1, <2>2, <2>3 DEF Apply
  <1>10. ASSUME NEW p \in Swappers, SwapBinary(p) PROVE Shape'
    <2>1. CASE Open(p)
      BY <2>1 DEF Open
    <2>2. CASE Write(p)
      BY <2>2 DEF Write
    <2>3. CASE Rename(p)
      BY <2>3 DEF Rename, Renamed, Target
    <2>4. CASE SwapFails(p)
      BY <2>4 DEF SwapFails
    <2> QED
      BY <1>10, <2>1, <2>2, <2>3, <2>4 DEF SwapBinary
  <1>11. CASE Check
    BY <1>11 DEF Check, Names
  <1>12. CASE RemovePrev
    BY <1>12 DEF RemovePrev
  <1>13. CASE ClearStarts
    BY <1>13 DEF ClearStarts
  <1>14. CASE UNCHANGED vars
    BY <1>14 DEF vars
  <1> QED
    BY <1>1, <1>2, <1>3, <1>4, <1>5, <1>6, <1>7, <1>8, <1>9, <1>10, <1>11, <1>12, <1>13, <1>14 DEF Next

\* A swapper alone finds the file it wrote.
LEMMA OwnFileStep == TypeOK /\ Shape /\ Whole /\ OwnFile /\ [Next]_vars => OwnFile'
  <1> USE VersionAssumption
          DEF TypeOK, Shape, Swappers, Appliers, Swapping, disk, swap, budget, ghosts, ProcessGone, Idle,
              OwnFile, Whole, Alone, Payload
  <1> SUFFICES ASSUME TypeOK, Shape, Whole, OwnFile, [Next]_vars PROVE OwnFile'
    OBVIOUS
  <1>1. CASE Start
    BY <1>1 DEF Start
  <1>2. CASE StartFails
    BY <1>2 DEF StartFails
  <1>3. CASE Dies
    BY <1>3 DEF Dies
  <1>4. CASE Kill
    BY <1>4 DEF Kill, CutShort
  <1>5. CASE RestartByHand \/ RestartDue
    BY <1>5 DEF RestartByHand, RestartDue, Stopped
  <1>6. CASE RestartFails
    BY <1>6 DEF RestartFails
  <1>7. CASE Tick
    BY <1>7 DEF Tick
  <1>8. CASE Publish
    BY <1>8 DEF Publish
  <1>9. ASSUME NEW p \in Appliers, Apply(p) PROVE OwnFile'
    <2>1. CASE Ask(p)
      BY <2>1 DEF Ask, Versions
    <2>2. CASE Fetched(p)
      BY <2>2 DEF Fetched, Others
    <2>3. CASE FetchFails(p)
      BY <2>3 DEF FetchFails
    <2> QED
      BY <1>9, <2>1, <2>2, <2>3 DEF Apply
  <1>10. ASSUME NEW p \in Swappers, SwapBinary(p) PROVE OwnFile'
    <2>1. CASE Open(p)
      BY <2>1 DEF Open
    <2>2. CASE Write(p)
      BY <2>2 DEF Write
    <2>3. CASE Rename(p)
      <3> SUFFICES ASSUME NEW q \in Swappers, Alone(q)', Swapping(q)'
                   PROVE  /\ step'[q] = "write" => fd'[q] = stage'[q]
                          /\ step'[q] = "rename" => file'[stage'[q]] = Payload(q)'
        BY DEF OwnFile
      <3>1. CASE q = p
        BY <2>3, <3>1 DEF Rename
      <3>2. CASE q # p
        <4>1. Swapping(p) /\ Swapping(q) /\ Alone(q)
          BY <2>3, <3>2 DEF Rename
        <4>2. q = p
          BY <4>1, <2>3
        <4> QED
          BY <3>2, <4>2
      <3> QED
        BY <3>1, <3>2
    <2>4. CASE SwapFails(p)
      BY <2>4 DEF SwapFails, CutShort
    <2> QED
      BY <1>10, <2>1, <2>2, <2>3, <2>4 DEF SwapBinary
  <1>11. CASE Check
    BY <1>11 DEF Check, Names
  <1>12. CASE RemovePrev
    <2> SUFFICES ASSUME NEW q \in Swappers, Alone(q)', Swapping(q)'
                 PROVE  /\ step'[q] = "write" => fd'[q] = stage'[q]
                        /\ step'[q] = "rename" => file'[stage'[q]] = Payload(q)'
      BY DEF OwnFile
    <2>1. q # "guard" /\ stage["guard"] # "idle"
      BY <1>12 DEF RemovePrev
    <2> QED
      BY <1>12, <2>1 DEF RemovePrev
  <1>13. CASE ClearStarts
    BY <1>13 DEF ClearStarts
  <1>14. CASE UNCHANGED vars
    BY <1>14 DEF vars
  <1> QED
    BY <1>1, <1>2, <1>3, <1>4, <1>5, <1>6, <1>7, <1>8, <1>9, <1>10, <1>11, <1>12, <1>13, <1>14 DEF Next

\* Without an overlap nothing torn is read, saved or installed.
LEMMA WholeStep == TypeOK /\ Shape /\ OwnFile /\ Whole /\ [Next]_vars => Whole'
  <1> USE VersionAssumption
          DEF TypeOK, Shape, Swappers, Appliers, Swapping, disk, swap, budget, ghosts, ProcessGone, Idle,
              OwnFile, Whole, Alone, Payload
  <1> SUFFICES ASSUME TypeOK, Shape, OwnFile, Whole, [Next]_vars PROVE Whole'
    OBVIOUS
  <1>1. CASE Start
    BY <1>1 DEF Start
  <1>2. CASE StartFails
    BY <1>2 DEF StartFails
  <1>3. CASE Dies
    BY <1>3 DEF Dies
  <1>4. CASE Kill
    BY <1>4 DEF Kill, CutShort
  <1>5. CASE RestartByHand \/ RestartDue
    BY <1>5 DEF RestartByHand, RestartDue, Stopped
  <1>6. CASE RestartFails
    BY <1>6 DEF RestartFails
  <1>7. CASE Tick
    BY <1>7 DEF Tick
  <1>8. CASE Publish
    BY <1>8 DEF Publish
  <1>9. ASSUME NEW p \in Appliers, Apply(p) PROVE Whole'
    <2>1. CASE Ask(p)
      BY <2>1 DEF Ask, Versions
    <2>2. CASE Fetched(p)
      BY <2>2 DEF Fetched, Others
    <2>3. CASE FetchFails(p)
      BY <2>3 DEF FetchFails
    <2> QED
      BY <1>9, <2>1, <2>2, <2>3 DEF Apply
  <1>10. ASSUME NEW p \in Swappers, SwapBinary(p) PROVE Whole'
    <2>1. CASE Open(p)
      BY <2>1 DEF Open
    <2>2. CASE Write(p)
      <3>1. CASE "overlap" \notin trouble
        <4>1. fd[p] \in {"prevtmp", "new"} /\ Payload(p) # Torn
          BY <2>2, <3>1 DEF Write
        <4>2. file'["bin"] = file["bin"] /\ file'["prev"] = file["prev"]
          BY <2>2, <4>1 DEF Write
        <4> QED
          BY <2>2, <3>1, <4>2 DEF Write
      <3>2. CASE "overlap" \in trouble
        BY <2>2, <3>2 DEF Write
      <3> QED
        BY <3>1, <3>2
    <2>3. CASE Rename(p)
      <3>1. CASE "overlap" \notin trouble
        <4>1. file[stage[p]] # Torn
          BY <2>3, <3>1 DEF Rename
        <4>2. file'["bin"] # Torn /\ file'["prev"] # Torn
          BY <2>3, <3>1, <4>1 DEF Rename, Target, Names
        <4>3. \A q \in Swappers : data'[q] # Torn /\ cur'[q] # Torn
          BY <2>3, <3>1 DEF Rename
        <4>4. \A q \in Swappers : Swapping(q)' => Swapping(q)
          BY <2>3 DEF Rename
        <4> QED
          BY <2>3, <3>1, <4>2, <4>3, <4>4 DEF Rename
      <3>2. CASE "overlap" \in trouble
        BY <2>3, <3>2 DEF Rename
      <3> QED
        BY <3>1, <3>2
    <2>4. CASE SwapFails(p)
      BY <2>4 DEF SwapFails, CutShort
    <2> QED
      BY <1>10, <2>1, <2>2, <2>3, <2>4 DEF SwapBinary
  <1>11. CASE Check
    BY <1>11 DEF Check, Names
  <1>12. CASE RemovePrev
    <2>1. file'["bin"] = file["bin"] /\ file'["prev"] \in {file["prev"], NoFile}
      BY <1>12 DEF RemovePrev, Names
    <2> QED
      BY <1>12, <2>1 DEF RemovePrev
  <1>13. CASE ClearStarts
    BY <1>13 DEF ClearStarts
  <1>14. CASE UNCHANGED vars
    BY <1>14 DEF vars
  <1> QED
    BY <1>1, <1>2, <1>3, <1>4, <1>5, <1>6, <1>7, <1>8, <1>9, <1>10, <1>11, <1>12, <1>13, <1>14 DEF Next

\* Nobody else touches the path while the guard runs.
LEMMA GuardAtHomeStep == TypeOK /\ Shape /\ OwnFile /\ GuardAtHome /\ [Next]_vars => GuardAtHome'
  <1> USE VersionAssumption
          DEF TypeOK, Shape, Swappers, Appliers, Swapping, disk, swap, budget, ghosts, ProcessGone, Idle,
              OwnFile, Alone, GuardAtHome
  <1> SUFFICES ASSUME TypeOK, Shape, OwnFile, GuardAtHome, [Next]_vars PROVE GuardAtHome'
    OBVIOUS
  <1>1. CASE Start
    BY <1>1 DEF Start
  <1>2. CASE StartFails
    BY <1>2 DEF StartFails
  <1>3. CASE Dies
    BY <1>3 DEF Dies
  <1>4. CASE Kill
    BY <1>4 DEF Kill, CutShort
  <1>5. CASE RestartByHand \/ RestartDue
    BY <1>5 DEF RestartByHand, RestartDue, Stopped
  <1>6. CASE RestartFails
    BY <1>6 DEF RestartFails
  <1>7. CASE Tick
    BY <1>7 DEF Tick
  <1>8. CASE Publish
    BY <1>8 DEF Publish
  <1>9. ASSUME NEW p \in Appliers, Apply(p) PROVE GuardAtHome'
    <2>1. CASE Ask(p)
      BY <2>1 DEF Ask, Versions
    <2>2. CASE Fetched(p)
      BY <2>2 DEF Fetched, Others
    <2>3. CASE FetchFails(p)
      BY <2>3 DEF FetchFails
    <2> QED
      BY <1>9, <2>1, <2>2, <2>3 DEF Apply
  <1>10. ASSUME NEW p \in Swappers, SwapBinary(p) PROVE GuardAtHome'
    <2>1. CASE Open(p)
      BY <2>1 DEF Open
    <2>2. CASE Write(p)
      <3> SUFFICES ASSUME agent = "guard", stage["guard"] \notin {"removing", "clearing"}
                   PROVE  file'["bin"] = run
        BY <2>2 DEF Write
      <3>1. p = "guard" /\ fd[p] = stage[p]
        BY <2>2 DEF Write
      <3> QED
        BY <2>2, <3>1 DEF Write
    <2>3. CASE Rename(p)
      <3> SUFFICES ASSUME agent = "guard", stage'["guard"] \notin {"removing", "clearing"}
                   PROVE  file'["bin"] = run
        BY <2>3 DEF Rename
      <3>1. p = "guard"
        BY <2>3 DEF Rename
      <3>2. stage[p] = "prevtmp"
        BY <2>3, <3>1 DEF Rename
      <3> QED
        BY <2>3, <3>1, <3>2 DEF Rename, Target, Names
    <2>4. CASE SwapFails(p)
      BY <2>4 DEF SwapFails, CutShort
    <2> QED
      BY <1>10, <2>1, <2>2, <2>3, <2>4 DEF SwapBinary
  <1>11. CASE Check
    BY <1>11 DEF Check, Names
  <1>12. CASE RemovePrev
    BY <1>12 DEF RemovePrev
  <1>13. CASE ClearStarts
    BY <1>13 DEF ClearStarts
  <1>14. CASE UNCHANGED vars
    BY <1>14 DEF vars
  <1> QED
    BY <1>1, <1>2, <1>3, <1>4, <1>5, <1>6, <1>7, <1>8, <1>9, <1>10, <1>11, <1>12, <1>13, <1>14 DEF Next

\* What leads back to a dismissed version is gone before anyone reads it.
LEMMA NoReturnStep == TypeOK /\ Shape /\ OwnFile /\ GuardAtHome /\ NoReturn /\ [Next]_vars => NoReturn'
  <1> USE VersionAssumption
          DEF TypeOK, Shape, Swappers, Appliers, Swapping, disk, swap, budget, ghosts, ProcessGone, Idle,
              OwnFile, Alone, Payload, GuardAtHome, NoReturn
  <1> SUFFICES ASSUME TypeOK, Shape, OwnFile, GuardAtHome, NoReturn, [Next]_vars PROVE NoReturn'
    OBVIOUS
  <1>0. NoFile \notin dismissed /\ Torn \notin dismissed
    BY DEF Versions
  <1>1. CASE Start
    BY <1>1 DEF Start
  <1>2. CASE StartFails
    BY <1>2 DEF StartFails
  <1>3. CASE Dies
    BY <1>0, <1>3 DEF Dies
  <1>4. CASE Kill
    BY <1>0, <1>4 DEF Kill, CutShort
  <1>5. CASE RestartByHand \/ RestartDue
    BY <1>0, <1>5 DEF RestartByHand, RestartDue, Stopped
  <1>6. CASE RestartFails
    BY <1>6 DEF RestartFails
  <1>7. CASE Tick
    BY <1>7 DEF Tick
  <1>8. CASE Publish
    BY <1>8 DEF Publish
  <1>9. ASSUME NEW p \in Appliers, Apply(p) PROVE NoReturn'
    <2>1. CASE Ask(p)
      BY <2>1 DEF Ask, Versions
    <2>2. CASE Fetched(p)
      BY <2>2 DEF Fetched, Others
    <2>3. CASE FetchFails(p)
      BY <1>0, <2>3 DEF FetchFails
    <2> QED
      BY <1>9, <2>1, <2>2, <2>3 DEF Apply
  <1>10. ASSUME NEW p \in Swappers, SwapBinary(p) PROVE NoReturn'
    <2>1. CASE Open(p)
      BY <1>0, <2>1 DEF Open, Names
    <2>2. CASE Write(p)
      BY <2>2 DEF Write
    <2>3. CASE Rename(p)
      <3> SUFFICES ASSUME "cut" \notin trouble PROVE NoReturn'
        BY <2>3 DEF Rename
      <3>1. CASE stage[p] = "prevtmp"
        <4>1. file["prevtmp"] \notin dismissed
          BY <2>3, <3>1 DEF Rename
        <4>2. file' = [file EXCEPT !["prev"] = file["prevtmp"], !["prevtmp"] = NoFile]
          BY <2>3, <3>1 DEF Rename, Target
        <4>3. file'["bin"] = file["bin"] /\ file'["prev"] = file["prevtmp"] /\ file'["prevtmp"] = NoFile
          BY <4>2 DEF Names
        <4>4. \A q \in Swappers : fd'[q] = "bin" => fd[q] = "bin"
          BY <2>3, <3>1 DEF Rename, Renamed, Target
        <4>5. UNCHANGED <<data, cur, dismissed>> /\ stage'["guard"] # "removing"
          BY <2>3, <3>1 DEF Rename
        <4> QED
          BY <1>0, <4>1, <4>3, <4>4, <4>5
      <3>2. CASE stage[p] = "new" /\ p # "guard"
        <4>1. dismissed' = {}
          BY <2>3, <3>2 DEF Rename
        <4> QED
          BY <4>1
      <3>3. CASE stage[p] = "new" /\ p = "guard"
        <4>1. agent = "guard" /\ \A q \in Appliers : stage[q] = "idle"
          BY <3>3
        <4>2. file["new"] = data["guard"] /\ file["bin"] = run
          BY <2>3, <3>3, <4>1 DEF Rename
        <4>3. file'["bin"] = data["guard"]
          BY <2>3, <3>3, <4>2 DEF Rename, Target, Names
        <4>4. dismissed' = dismissed \cup ({run} \ {data["guard"]})
          BY <2>3, <3>3 DEF Rename
        <4>5. file'["bin"] \notin dismissed'
          BY <4>3, <4>4
        <4>6. stage'["guard"] = "removing" /\ data'["guard"] = NoFile /\ cur'["guard"] = NoFile
          BY <2>3, <3>3 DEF Rename
        <4>7. \A q \in Appliers : stage'[q] = "idle" /\ fd'[q] = "none" /\ cur'[q] = NoFile
          BY <2>3, <3>3, <4>1 DEF Rename, Renamed
        <4>8. fd'["guard"] # "bin"
          BY <2>3, <3>3 DEF Rename, Renamed, Target
        <4>9. NoFile \notin dismissed'
          BY <1>0, <4>4 DEF Versions
        <4> QED
          BY <4>5, <4>6, <4>7, <4>8, <4>9
      <3> QED
        BY <2>3, <3>1, <3>2, <3>3 DEF Rename
    <2>4. CASE SwapFails(p)
      BY <1>0, <2>4 DEF SwapFails, CutShort
    <2> QED
      BY <1>10, <2>1, <2>2, <2>3, <2>4 DEF SwapBinary
  <1>11. CASE Check
    BY <1>11 DEF Check, Names
  <1>12. CASE RemovePrev
    BY <1>0, <1>12 DEF RemovePrev, Names
  <1>13. CASE ClearStarts
    BY <1>0, <1>13 DEF ClearStarts
  <1>14. CASE UNCHANGED vars
    BY <1>14 DEF vars
  <1> QED
    BY <1>1, <1>2, <1>3, <1>4, <1>5, <1>6, <1>7, <1>8, <1>9, <1>10, <1>11, <1>12, <1>13, <1>14 DEF Next

\* The only swap in the life of a process saves the version it runs.
LEMMA ReturnableStep == TypeOK /\ Shape /\ OwnFile /\ Whole /\ GuardAtHome /\ Returnable /\ [Next]_vars => Returnable'
  <1> USE VersionAssumption
          DEF TypeOK, Shape, Swappers, Appliers, Swapping, disk, swap, budget, ghosts, ProcessGone, Idle,
              OwnFile, Whole, Alone, Payload, GuardAtHome, Returnable
  <1> SUFFICES ASSUME TypeOK, Shape, OwnFile, Whole, GuardAtHome, Returnable, [Next]_vars PROVE Returnable'
    OBVIOUS
  <1>1. CASE Start
    BY <1>1 DEF Start
  <1>2. CASE StartFails
    BY <1>2 DEF StartFails
  <1>3. CASE Dies
    BY <1>3 DEF Dies
  <1>4. CASE Kill
    BY <1>4 DEF Kill, CutShort
  <1>5. CASE RestartByHand \/ RestartDue
    BY <1>5 DEF RestartByHand, RestartDue, Stopped
  <1>6. CASE RestartFails
    BY <1>6 DEF RestartFails
  <1>7. CASE Tick
    BY <1>7 DEF Tick
  <1>8. CASE Publish
    BY <1>8 DEF Publish
  <1>9. ASSUME NEW p \in Appliers, Apply(p) PROVE Returnable'
    <2>1. CASE Ask(p)
      BY <2>1 DEF Ask, Versions
    <2>2. CASE Fetched(p)
      BY <2>2 DEF Fetched, Others
    <2>3. CASE FetchFails(p)
      BY <2>3 DEF FetchFails
    <2> QED
      BY <1>9, <2>1, <2>2, <2>3 DEF Apply
  <1>10. ASSUME NEW p \in Swappers, SwapBinary(p) PROVE Returnable'
    <2>1. CASE Open(p)
      BY <2>1 DEF Open
    <2>2. CASE Write(p)
      BY <2>2 DEF Write
    <2>3. CASE Rename(p)
      <3> SUFFICES ASSUME agent = "up", trouble = {} PROVE Returnable'
        BY <2>3 DEF Rename
      <3>1. p # "guard" /\ \A q \in Appliers : q # p => ~Swapping(q)
        BY <2>3 DEF Rename
      <3>2. file["bin"] = run /\ cur[p] = run
        BY <2>3, <3>1 DEF Rename
      <3>3. \A q \in Appliers : q # p => ~Swapping(q)'
        BY <2>3, <3>1 DEF Rename
      <3>4. CASE stage[p] = "prevtmp"
        <4>1. file["prevtmp"] = run
          BY <2>3, <3>1, <3>2, <3>4 DEF Rename
        <4>2. file'["bin"] = run /\ file'["prev"] = run
          BY <2>3, <3>2, <3>4, <4>1 DEF Rename, Target, Names
        <4>3. cur'[p] = run
          BY <2>3, <3>2, <3>4 DEF Rename
        <4> QED
          BY <2>3, <3>3, <4>2, <4>3 DEF Rename
      <3>5. CASE stage[p] = "new"
        <4>1. file'["prev"] = run
          BY <2>3, <3>1, <3>5 DEF Rename, Target, Names
        <4>2. ~Swapping(p)'
          BY <2>3, <3>1, <3>5 DEF Rename
        <4> QED
          BY <2>3, <3>3, <4>1, <4>2 DEF Rename
      <3> QED
        BY <2>3, <3>4, <3>5 DEF Rename
    <2>4. CASE SwapFails(p)
      BY <2>4 DEF SwapFails, CutShort
    <2> QED
      BY <1>10, <2>1, <2>2, <2>3, <2>4 DEF SwapBinary
  <1>11. CASE Check
    BY <1>11 DEF Check, Names
  <1>12. CASE RemovePrev
    BY <1>12 DEF RemovePrev
  <1>13. CASE ClearStarts
    BY <1>13 DEF ClearStarts
  <1>14. CASE UNCHANGED vars
    BY <1>14 DEF vars
  <1> QED
    BY <1>1, <1>2, <1>3, <1>4, <1>5, <1>6, <1>7, <1>8, <1>9, <1>10, <1>11, <1>12, <1>13, <1>14 DEF Next

-----------------------------------------------------------------------------
\* SelfUpdate's parts hold together in every reachable state.
THEOREM InductiveInvariant == Spec => []IInv
  <1>1. Init => IInv
    BY InitInv
  <1>2. IInv /\ [Next]_vars => IInv'
    BY TypeStep, ShapeStep, OwnFileStep, WholeStep, GuardAtHomeStep, NoReturnStep, ReturnableStep DEF IInv
  <1> QED
    BY <1>1, <1>2, PTL DEF Spec

\* Files, versions, ages and stages keep their types.
THEOREM TypeCorrect == Spec => []TypeOK
  <1>1. IInv => TypeOK
    BY DEF IInv
  <1> QED
    BY <1>1, InductiveInvariant, PTL

\* The path, and .prev when there is one, hold whole binaries wherever a swap
\* is cut short, unless two swaps went on at once (update.go:186).
THEOREM RunnableCorrect == Spec => []Runnable
  <1>1. IInv => Runnable
    BY VersionAssumption DEF IInv, Whole, Runnable, TypeOK, Contents, Names
  <1> QED
    BY <1>1, InductiveInvariant, PTL

\* A version the guard replaced stays out until an Apply installs one, unless
\* a rollback was cut short (rollback.go:57).
THEOREM DismissedStaysOutCorrect == Spec => []DismissedStaysOut
  <1>1. IInv => DismissedStaysOut
    BY DEF IInv, NoReturn, DismissedStaysOut
  <1> QED
    BY <1>1, InductiveInvariant, PTL

\* While a new version waits for its restart, .prev holds the one that runs.
THEOREM WayBackCorrect == Spec => []WayBack
  <1>1. IInv => WayBack
    BY DEF IInv, Returnable, WayBack
  <1> QED
    BY <1>1, InductiveInvariant, PTL
=============================================================================
