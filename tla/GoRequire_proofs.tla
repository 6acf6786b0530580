-------------------------- MODULE GoRequire_proofs --------------------------
(***************************************************************************)
(* For every package, of any size: what the go-require checker reports is  *)
(* what the rules, said of the tree, ask for.                              *)
(***************************************************************************)
EXTENDS GoRequire, SyntaxTree_proofs

(* The walk only visits what is to be judged. *)
WalkIsReached ==
  phase = "walk" =>
    /\ at \in Nodes(file) => Reached(at)
    /\ at \notin Nodes(file) => push

(* While a callee is inspected the walk waits at its call. *)
WalkWaits ==
  frames # <<>> =>
    /\ phase = "walk" /\ at \in Nodes(file) /\ push
    /\ ~ Permitted /\ CalledDecl(at) # 0 /\ frames[1].fd = CalledDecl(at)

(* The first node that the walk has neither entered nor pruned.            *)
NotSeen == IF push THEN at ELSE After(file, at)

(* What the walk has to report of the nodes before that one.               *)
ToReport == { n \in Nodes(file) : OutsideTest(n) /\ Reached(n) /\ Exits(n) }
WalkReports ==
  /\ Reported({"goroutine", "callee"}) =
       IF phase = "walk" THEN { n \in ToReport : n < NotSeen } ELSE ToReport
  /\ \A i, j \in 1 .. Len(diagnostics) :
       i < j /\ diagnostics[j].about # "handler" => diagnostics[i].node < diagnostics[j].node
  /\ phase = "walk" =>
       \A i \in 1 .. Len(diagnostics) :
         diagnostics[i].about # "handler" /\ diagnostics[i].node < NotSeen

(* The last walk has reported what it passed, and is in no assertion that  *)
(* it judged.                                                              *)
HandlerJudged(m) == file.kind[m] \in Testify /\ HandlerOwns(m)
HandlerToReport ==
  { n \in Nodes(file) :
      /\ file.kind[n] \in {"require", "failnow"} /\ HandlerOwns(n)
      /\ ~ \E m \in Nodes(file) : Encloses(file, m, n) /\ HandlerJudged(m) }
HandlerReports ==
  /\ phase = "walk" => Reported({"handler"}) = {}
  /\ phase = "handlers" =>
       /\ ~ IgnoreHTTPHandlers
       /\ Reported({"handler"}) = { n \in HandlerToReport : n < at }
       /\ at \in Nodes(file) =>
            \A m \in Nodes(file) : Encloses(file, m, at) => ~ HandlerJudged(m)
  /\ phase = "done" =>
       Reported({"handler"}) = IF IgnoreHTTPHandlers THEN {} ELSE HandlerToReport

(* An activation calls the next one, so it reaches all after it.           *)
CallsNext(i) ==
  /\ frames[i].result = "NoExit"
  /\ frames[i].at \in Nodes(file) /\ Runs(frames[i].fd, frames[i].at, Opaque)
  /\ CalledDecl(frames[i].at) = frames[i + 1].fd /\ frames[i + 1].fd # frames[i].fd
FramesLinked ==
  \A i \in 1 .. Len(frames) :
    /\ frames[i].fd \in TestingDecls
    /\ i < Len(frames) => CallsNext(i)
    /\ \A j \in i .. Len(frames) : frames[j].fd \in ReachableFrom(frames[i].fd, Opaque)

(* An activation has passed nothing of the running part of its function    *)
(* that exits.                                                             *)
Harmless(fd, n) ==
  /\ file.kind[n] \notin {"require", "failnow"}
  /\ CalledDecl(n) \in {0, fd} \/ ~ HoldsExit(CalledDecl(n))
PassedHarmless(fd, m) ==
  \A n \in Nodes(file) : n < m /\ Runs(fd, n, Opaque) => Harmless(fd, n)
InRunningPart(fd, m) ==
  \/ m = fd
  \/ m = After(file, fd)
  \/ m \in Nodes(file) /\ Runs(fd, m, Opaque)
FrameIsExact(r) ==
  IF r.result = "NoExit" THEN InRunningPart(r.fd, r.at) /\ PassedHarmless(r.fd, r.at)
  ELSE HoldsExit(r.fd)
FramesExact == \A i \in 1 .. Len(frames) : FrameIsExact(frames[i])
-----------------------------------------------------------------------------
(* Types.  A step may read a node only where there is one. *)
CallersInside ==
  /\ frames # <<>> => at \in Nodes(file)
  /\ \A i \in 1 .. Len(frames) : i < Len(frames) => frames[i].at \in Nodes(file)

TypeInv == file \in Files /\ TypeOK /\ CallersInside

Frame == [fd : Nodes(file), at : 1 .. Len(file.kind) + 1, result : Verdicts]
Diagnoses == [node : Nodes(file), about : {"goroutine", "callee", "handler"}]

LEMMA FilesArePreorders ==
  ASSUME file \in Files
  PROVE  /\ IsTree(file) /\ IsPreorder(file)
         /\ Len(file.kind) \in Nat
         /\ \A n \in Nodes(file) : n \in Nat /\ 1 <= n /\ n <= Len(file.kind)
         /\ \A n : n \in Nodes(file) <=> n \in 1 .. Len(file.kind)
<1>1. IsTree(file)
  BY GoRequireAssumption
<1>2. Len(file.kind) \in Nat
  BY <1>1 DEF IsTree
<1>3. IsPreorder(file)
  BY <1>1, <1>2 DEF IsTree, IsPreorder
<1> QED
  BY <1>1, <1>2, <1>3 DEF Nodes

LEMMA CalleesAreTests ==
  ASSUME file \in Files, NEW n \in Nodes(file), CalledDecl(n) # 0
  PROVE  /\ file.kind[n] = "call" /\ CalledDecl(n) = file.callee[n]
         /\ CalledDecl(n) \in TestingDecls /\ CalledDecl(n) \in Nodes(file)
<1>1. file.kind[n] = "call" /\ CalledDecl(n) = file.callee[n] /\ IsTesting(file.callee[n])
  BY DEF CalledDecl
<1>2. file.callee[n] \in Nodes(file)
  BY <1>1, FilesArePreorders DEF IsTree
<1> QED
  BY <1>1, <1>2 DEF TestingDecls

LEMMA DescendMoves ==
  ASSUME file \in Files, at \in Nodes(file), Descend
  PROVE  /\ at' \in Nodes(file) /\ push' \in BOOLEAN
         /\ at' = IF push' THEN at + 1 ELSE at
         /\ push' => file.up[at'] = at
         /\ ~ push' => After(file, at) = at + 1
<1>1. IsPreorder(file)
  BY FilesArePreorders
<1>2. CASE at + 1 \in Nodes(file) /\ file.up[at + 1] = at
  BY <1>2 DEF Descend
<1>3. CASE ~ (at + 1 \in Nodes(file) /\ file.up[at + 1] = at)
  <2>1. After(file, at) = at + 1
    BY <1>1, <1>3, AfterLeaf
  <2> QED
    BY <1>3, <2>1 DEF Descend
<1> QED
  BY <1>2, <1>3

LEMMA LeaveMoves ==
  ASSUME file \in Files, at \in Nodes(file), Leave
  PROVE  /\ at' \in 1 .. Len(file.kind) + 1 /\ push' \in BOOLEAN
         /\ ~ push' => /\ file.up[at] # 0 /\ at' = file.up[at] /\ at' \in Nodes(file)
                       /\ After(file, at') = After(file, at)
         /\ push' => at' = After(file, at)
         /\ push' /\ at' \in Nodes(file) => file.up[at'] = file.up[at]
         /\ at' \notin Nodes(file) => push' /\ file.up[at] = 0
<1> DEFINE m == After(file, at)
<1>1. IsPreorder(file) /\ Len(file.kind) \in Nat
  BY FilesArePreorders
<1>2. m \in at + 1 .. Len(file.kind) + 1 /\ at \in Nat /\ 1 <= at
  BY <1>1, AfterEnds, NodesAreNumbers
<1>3. m \notin Nodes(file) \/ m \in Nodes(file)
  OBVIOUS
<1>4. CASE file.up[at] # 0 /\ (m \notin Nodes(file) \/ file.up[m] # file.up[at])
  <2>1. at' = file.up[at] /\ push' = FALSE
    BY <1>4 DEF Leave
  <2>2. file.up[at] \in Nodes(file) /\ After(file, file.up[at]) = m
    BY <1>1, <1>4, ParentEncloses, AfterLastChild
  <2>3. at' \in 1 .. Len(file.kind) + 1
    BY <1>1, <2>1, <2>2 DEF Nodes
  <2> QED
    BY <1>4, <2>1, <2>2, <2>3
<1>5. CASE ~ (file.up[at] # 0 /\ (m \notin Nodes(file) \/ file.up[m] # file.up[at]))
  <2>1. at' = m /\ push' = TRUE
    BY <1>5 DEF Leave
  <2>2. m \in Nodes(file) => file.up[m] = file.up[at]
    <3> SUFFICES ASSUME m \in Nodes(file), file.up[at] = 0 PROVE file.up[m] = 0
      BY <1>5
    <3> QED
      BY <1>1, UpOfAfter, EnclosesByParent
  <2>3. at' \in 1 .. Len(file.kind) + 1
    BY <1>2, <2>1
  <2> QED
    BY <1>5, <2>1, <2>2, <2>3
<1> QED
  BY <1>4, <1>5

(* The actions of the walk over the package. *)
WalkStep ==
  \/ EnterStatus \/ LeaveStatus \/ SkipFuncDecl \/ Unfiltered
  \/ PassCall \/ CheckAssertion \/ PassUnknownCall \/ CheckCallee

(* Those of checkFunc. *)
InspectStep == InspectGo \/ InspectAssertion \/ InspectOther \/ InspectCall \/ ReturnToCaller

LEMMA WalkStepMoves ==
  ASSUME TypeInv, WalkStep
  PROVE  /\ phase = "walk" /\ frames = <<>> /\ at \in Nodes(file)
         /\ UNCHANGED <<file, phase, processedFuncs>>
         /\ \/ Descend \/ Leave
            \/ UNCHANGED <<at, push>> /\ frames' = <<Activation(CalledDecl(at))>> /\ CalledDecl(at) # 0
         /\ frames' = frames \/ (UNCHANGED <<at, push>> /\ frames' = <<Activation(CalledDecl(at))>>)
<1>1. Walking
  BY DEF WalkStep, EnterStatus, LeaveStatus, SkipFuncDecl, Unfiltered, PassCall, CheckAssertion,
         PassUnknownCall, CheckCallee, InCall
<1>2. at \in Nodes(file)
  BY <1>1, FilesArePreorders DEF TypeInv, TypeOK, Walking
<1>3. UNCHANGED <<file, phase, processedFuncs>>
  BY DEF WalkStep, EnterStatus, LeaveStatus, SkipFuncDecl, Unfiltered, PassCall, CheckAssertion,
         PassUnknownCall, CheckCallee
<1>4. /\ \/ Descend \/ Leave
         \/ UNCHANGED <<at, push>> /\ frames' = <<Activation(CalledDecl(at))>> /\ CalledDecl(at) # 0
      /\ frames' = frames \/ (UNCHANGED <<at, push>> /\ frames' = <<Activation(CalledDecl(at))>>)
  BY DEF WalkStep, EnterStatus, LeaveStatus, SkipFuncDecl, Unfiltered, PassCall, CheckAssertion,
         PassUnknownCall, CheckCallee, ReportCallee
<1> QED
  BY <1>1, <1>2, <1>3, <1>4 DEF Walking

LEMMA DiagnoseTypes ==
  ASSUME TypeOK, NEW n \in Nodes(file), NEW a \in {"goroutine", "callee", "handler"},
         \/ UNCHANGED diagnostics
         \/ Diagnose(n, a)
  PROVE  diagnostics' \in Seq(Diagnoses)
<1>1. Diagnostic(n, a) \in Diagnoses
  BY DEF Diagnostic, Diagnoses
<1>2. diagnostics \in Seq(Diagnoses)
  BY DEF TypeOK, Diagnoses
<1>3. CASE Diagnose(n, a)
  BY <1>1, <1>2, <1>3 DEF Diagnose
<1> QED
  BY <1>2, <1>3

LEMMA ActivationType ==
  ASSUME file \in Files, NEW n \in Nodes(file), CalledDecl(n) # 0
  PROVE  Activation(CalledDecl(n)) \in Frame
<1>1. CalledDecl(n) \in Nodes(file) /\ CalledDecl(n) \in 1 .. Len(file.kind) + 1
  BY CalleesAreTests, FilesArePreorders DEF Nodes
<1> QED
  BY <1>1 DEF Activation, Frame, Verdicts

LEMMA WalkStepTypes == TypeInv /\ WalkStep => TypeInv'
<1> SUFFICES ASSUME TypeInv, WalkStep PROVE TypeInv'
  OBVIOUS
<1>1. file \in Files /\ TypeOK
  BY DEF TypeInv
<1>2. /\ phase = "walk" /\ frames = <<>> /\ at \in Nodes(file)
      /\ file' = file /\ phase' = phase /\ processedFuncs' = processedFuncs
  BY WalkStepMoves
<1>3. at' \in 1 .. Len(file.kind) + 1 /\ push' \in BOOLEAN
  <2>1. CASE Descend
    BY <1>1, <1>2, <2>1, DescendMoves, FilesArePreorders DEF Nodes
  <2>2. CASE Leave
    BY <1>1, <1>2, <2>2, LeaveMoves
  <2>3. CASE UNCHANGED <<at, push>>
    BY <1>1, <2>3 DEF TypeOK
  <2> QED
    BY <2>1, <2>2, <2>3, WalkStepMoves
<1>4. inGoroutineRunningTestFunc' \in Seq(BOOLEAN)
  <2>1. inGoroutineRunningTestFunc \in Seq(BOOLEAN)
    BY <1>1 DEF TypeOK
  <2>2. CASE EnterStatus
    <3>1. Status(Kind) \in BOOLEAN
      BY <2>2 DEF EnterStatus, Status, ChangesStatus
    <3> QED
      BY <2>1, <2>2, <3>1 DEF EnterStatus, Push
  <2>3. CASE LeaveStatus
    <3>1. CASE inGoroutineRunningTestFunc = <<>>
      BY <2>3, <3>1 DEF LeaveStatus, Pop
    <3>2. CASE inGoroutineRunningTestFunc # <<>>
      <4>1. /\ Len(inGoroutineRunningTestFunc) - 1 \in Nat
            /\ inGoroutineRunningTestFunc' =
                 SubSeq(inGoroutineRunningTestFunc, 1, Len(inGoroutineRunningTestFunc) - 1)
        BY <2>1, <2>3, <3>2 DEF LeaveStatus, Pop
      <4> QED
        BY <2>1, <4>1
    <3> QED
      BY <3>1, <3>2
  <2>4. CASE ~ EnterStatus /\ ~ LeaveStatus
    BY <2>1, <2>4 DEF WalkStep, SkipFuncDecl, Unfiltered, PassCall, CheckAssertion,
       PassUnknownCall, CheckCallee
  <2> QED
    BY <2>2, <2>3, <2>4
<1>5. frames' \in Seq(Frame) /\ Len(frames') \in {0, 1} /\ (frames' # <<>> => at' = at)
  <2>1. CASE frames' = frames
    BY <1>2, <2>1
  <2>2. CASE frames' # frames
    <3>1. frames' = <<Activation(CalledDecl(at))>> /\ CalledDecl(at) # 0 /\ at' = at
      BY <2>2, WalkStepMoves DEF WalkStep, CheckCallee, EnterStatus, LeaveStatus, SkipFuncDecl,
         Unfiltered, PassCall, CheckAssertion, PassUnknownCall
    <3>2. Activation(CalledDecl(at)) \in Frame
      BY <1>1, <1>2, <3>1, ActivationType
    <3> QED
      BY <3>1, <3>2
  <2> QED
    BY <2>1, <2>2
<1>6. diagnostics' \in Seq(Diagnoses)
  <2>1. UNCHANGED diagnostics \/ \E a \in {"goroutine", "callee", "handler"} : Diagnose(at, a)
    BY DEF WalkStep, EnterStatus, LeaveStatus, SkipFuncDecl, Unfiltered, PassCall, CheckAssertion,
       PassUnknownCall, CheckCallee, ReportCallee
  <2> QED
    BY <1>1, <1>2, <2>1, DiagnoseTypes
<1>7. TypeOK'
  BY <1>1, <1>2, <1>3, <1>4, <1>5, <1>6 DEF TypeOK, Frame, Diagnoses
<1>8. CallersInside'
  <2>1. ASSUME NEW i \in 1 .. Len(frames'), i < Len(frames') PROVE FALSE
    <3>1. CASE Len(frames') = 0
      BY <2>1, <3>1
    <3>2. CASE Len(frames') = 1
      BY <2>1, <3>2
    <3> QED
      BY <1>5, <3>1, <3>2
  <2> QED
    BY <1>2, <1>5, <2>1 DEF CallersInside
<1> QED
  BY <1>1, <1>2, <1>7, <1>8 DEF TypeInv

(* Where an activation stands. *)
LEMMA TopIsInside ==
  ASSUME TypeInv, Inspecting
  PROVE  /\ Len(frames) \in Nat \ {0} /\ Top \in Frame /\ Top = frames[Len(frames)]
         /\ Top.fd \in Nodes(file) /\ Top.at \in Nodes(file)
         /\ Top.at + 1 \in 1 .. Len(file.kind) + 1
         /\ After(file, Top.at) \in 1 .. Len(file.kind) + 1
<1>1. file \in Files /\ frames \in Seq(Frame) /\ frames # <<>> /\ Top.at < After(file, Top.fd)
  BY DEF TypeInv, TypeOK, Frame, Inspecting
<1>2. Len(frames) \in Nat \ {0} /\ Top \in Frame
  BY <1>1 DEF Top
<1>3. Top.fd \in Nodes(file) /\ Top.at \in 1 .. Len(file.kind) + 1
  BY <1>2 DEF Frame
<1>4. IsPreorder(file) /\ Len(file.kind) \in Nat
  BY <1>1, FilesArePreorders
<1>5. After(file, Top.fd) \in Nat /\ After(file, Top.fd) <= Len(file.kind) + 1
  BY <1>3, <1>4, AfterEnds, NodesAreNumbers
<1>6. Top.at \in Nodes(file)
  BY <1>1, <1>3, <1>4, <1>5 DEF Nodes
<1>7. After(file, Top.at) \in Top.at + 1 .. Len(file.kind) + 1
  BY <1>4, <1>6, AfterEnds
<1> QED
  BY <1>2, <1>3, <1>4, <1>6, <1>7 DEF Top, Nodes

(* Replacing the last frame, or leaving it out, keeps the others.          *)
LEMMA ContinueTypes ==
  ASSUME NEW S, NEW s \in Seq(S), NEW r \in S, NEW k \in Nat, Len(s) = k, k # 0
  PROVE  /\ [s EXCEPT ![k] = r] \in Seq(S)
         /\ Len([s EXCEPT ![k] = r]) = k
         /\ [s EXCEPT ![k] = r][k] = r
         /\ \A i \in 1 .. k : i < k => [s EXCEPT ![k] = r][i] = s[i]
<1>1. k \in 1 .. k /\ s \in [1 .. k -> S]
  OBVIOUS
<1> DEFINE t == [s EXCEPT ![k] = r]
<1>2. t = [j \in 1 .. k |-> IF j = k THEN r ELSE s[j]]
  BY <1>1
<1>3. t \in [1 .. k -> S]
  BY <1>1, <1>2
<1>4. t \in Seq(S) /\ Len(t) = k
  BY <1>1, <1>3
<1>5. t[k] = r
  BY <1>1, <1>2
<1>6. \A i \in 1 .. k : i < k => t[i] = s[i]
  BY <1>2
<1> QED
  BY <1>4, <1>5, <1>6

LEMMA WithoutLast ==
  ASSUME NEW S, NEW s \in Seq(S), NEW k \in Nat, Len(s) = k + 1
  PROVE  /\ SubSeq(s, 1, k) \in Seq(S) /\ Len(SubSeq(s, 1, k)) = k
         /\ \A i \in 1 .. k : SubSeq(s, 1, k)[i] = s[i]
OBVIOUS

LEMMA VerdictTypes ==
  ASSUME file \in Files, NEW r \in Frame, r.at \in Nodes(file), NEW v \in Verdicts
  PROVE  TakeVerdict(r, v) \in Frame /\ Into(r) \in Frame /\ Past(r) \in Frame
<1>1. IsPreorder(file) /\ Len(file.kind) \in Nat
  BY FilesArePreorders
<1>2. After(file, r.at) \in 1 .. Len(file.kind) + 1 /\ r.at + 1 \in 1 .. Len(file.kind) + 1
  BY <1>1, AfterEnds, NodesAreNumbers
<1>3. Into(r) \in Frame /\ Past(r) \in Frame
  BY <1>2 DEF Into, Past, Frame
<1> QED
  BY <1>3 DEF TakeVerdict, Frame

LEMMA InspectMoves ==
  ASSUME InspectStep
  PROVE  /\ phase = "walk" /\ frames # <<>>
         /\ UNCHANGED <<file, phase, at, push, inGoroutineRunningTestFunc, diagnostics>>
BY DEF InspectStep, InspectGo, InspectAssertion, InspectOther, InspectCall, ReturnToCaller,
       Inspecting, Inspected, FrameStep

LEMMA InspectStepTypes == TypeInv /\ InspectStep => TypeInv'
<1> SUFFICES ASSUME TypeInv, InspectStep PROVE TypeInv'
  OBVIOUS
<1>1. /\ file \in Files /\ TypeOK /\ frames \in Seq(Frame) /\ frames # <<>>
      /\ Len(frames) \in Nat \ {0} /\ at \in Nodes(file)
      /\ UNCHANGED <<file, phase, at, push, inGoroutineRunningTestFunc, diagnostics>>
  BY InspectMoves DEF TypeInv, TypeOK, Frame, CallersInside
<1>2. /\ \A n \in Nodes(file) : file.kind[n] \in Testify => checkCall(n) \in Verdicts
      /\ "NoExit" \in Verdicts
  BY DEF checkCall, Testify, Verdicts
<1>3. \A i \in 1 .. Len(frames) : i < Len(frames) => frames[i].at \in Nodes(file)
  BY DEF TypeInv, CallersInside
<1>4. ASSUME Inspecting, NEW r \in Frame, Continue(r)
      PROVE  frames' \in Seq(Frame) /\ CallersInside'
  <2>1. /\ frames' \in Seq(Frame) /\ Len(frames') = Len(frames)
        /\ \A i \in 1 .. Len(frames) : i < Len(frames) => frames'[i] = frames[i]
    <3>1. Len(frames) \in Nat /\ Len(frames) # 0
      BY <1>1
    <3> QED
      BY <1>1, <1>4, <3>1, ContinueTypes DEF Continue
  <2> QED
    BY <1>1, <1>3, <2>1 DEF CallersInside
<1>5. CASE InspectGo \/ InspectAssertion \/ InspectOther \/ InspectCall
  <2>1. Inspecting
    BY <1>5 DEF InspectGo, InspectAssertion, InspectOther, InspectCall
  <2>2. Top \in Frame /\ Top.at \in Nodes(file) /\ Top.fd \in Nodes(file)
    BY <2>1, TopIsInside
  <2>3. Into(Top) \in Frame /\ Past(Top) \in Frame
        /\ \A v \in Verdicts : TakeVerdict(Top, v) \in Frame /\ [Past(Top) EXCEPT !.result = v] \in Frame
    <3>1. Into(Top) \in Frame /\ Past(Top) \in Frame
      BY <1>1, <1>2, <2>2, VerdictTypes
    <3>2. \A v \in Verdicts : TakeVerdict(Top, v) \in Frame
      BY <1>1, <2>2, VerdictTypes
    <3>3. \A v \in Verdicts : [Past(Top) EXCEPT !.result = v] \in Frame
      BY <3>1 DEF Frame
    <3> QED
      BY <3>1, <3>2, <3>3
  <2>4. frames' \in Seq(Frame) /\ CallersInside'
    <3>1. CASE InspectGo
      BY <1>4, <2>1, <2>3, <3>1 DEF InspectGo
    <3>2. CASE InspectAssertion
      <4>1. checkCall(Top.at) \in Verdicts
        BY <1>2, <2>2, <3>2 DEF InspectAssertion
      <4> QED
        BY <1>4, <2>1, <2>3, <3>2, <4>1 DEF InspectAssertion
    <3>3. CASE InspectOther
      BY <1>4, <2>1, <2>3, <3>3 DEF InspectOther
    <3>4. CASE InspectCall
      <4> DEFINE g == CalledDecl(Top.at)
      <4>1. CASE g \in DOMAIN processedFuncs
        <5>1. processedFuncs[g] \in Verdicts /\ Continue(TakeVerdict(Top, processedFuncs[g]))
          BY <1>1, <3>4, <4>1 DEF InspectCall, TypeOK
        <5> QED
          BY <1>4, <2>1, <2>3, <5>1
      <4>2. CASE g \notin DOMAIN processedFuncs
        <5>1. frames' = Append(frames, Activation(g)) /\ g # 0
          BY <3>4, <4>2 DEF InspectCall, Passable
        <5>2. Activation(g) \in Frame
          BY <1>1, <2>2, <5>1, ActivationType
        <5>3. /\ frames' \in Seq(Frame) /\ Len(frames') = Len(frames) + 1
              /\ \A i \in 1 .. Len(frames) : frames'[i] = frames[i]
          BY <1>1, <5>1, <5>2
        <5>4. ASSUME NEW i \in 1 .. Len(frames'), i < Len(frames')
              PROVE  frames'[i].at \in Nodes(file)
          <6>1. i \in 1 .. Len(frames) /\ frames'[i] = frames[i]
            BY <1>1, <5>3, <5>4
          <6>2. CASE i < Len(frames)
            BY <1>3, <6>1, <6>2
          <6>3. CASE i = Len(frames)
            BY <2>2, <6>1, <6>3 DEF Top
          <6> QED
            BY <1>1, <6>1, <6>2, <6>3
        <5> QED
          BY <1>1, <5>3, <5>4 DEF CallersInside
      <4> QED
        BY <4>1, <4>2
    <3> QED
      BY <1>5, <3>1, <3>2, <3>3, <3>4
  <2>5. /\ DOMAIN processedFuncs' \subseteq Nodes(file)
        /\ \A fd \in DOMAIN processedFuncs' : processedFuncs'[fd] \in Verdicts
    <3>1. CASE processedFuncs' = processedFuncs
      BY <1>1, <3>1 DEF TypeOK
    <3>2. CASE processedFuncs' # processedFuncs
      <4>1. /\ checkCall(Top.at) \in Verdicts
            /\ processedFuncs' = [fd \in DOMAIN processedFuncs \cup {Top.fd} |->
                 IF fd = Top.fd THEN checkCall(Top.at) ELSE processedFuncs[fd]]
        BY <1>2, <1>5, <2>2, <3>2 DEF InspectGo, InspectAssertion, InspectOther, InspectCall
      <4> QED
        BY <1>1, <2>2, <4>1 DEF TypeOK
    <3> QED
      BY <3>1, <3>2
  <2>6. TypeOK'
    BY <1>1, <2>4, <2>5 DEF TypeOK, Frame
  <2> QED
    BY <1>1, <2>4, <2>6 DEF TypeInv
<1>6. CASE ReturnToCaller
  <2> DEFINE k == Len(frames) - 1
             s == SubSeq(frames, 1, k)
             r == TakeVerdict(frames[k], Top.result)
  <2>1. Len(frames) > 1 /\ frames' = [s EXCEPT ![k] = r]
    BY <1>6 DEF ReturnToCaller
  <2>2. k \in Nat \ {0} /\ k \in 1 .. Len(frames) /\ k < Len(frames)
    BY <1>1, <2>1
  <2>3. s \in Seq(Frame) /\ Len(s) = k /\ \A i \in 1 .. k : s[i] = frames[i]
    <3>1. k \in Nat /\ Len(frames) = k + 1
      BY <1>1
    <3> QED
      BY <1>1, <3>1, WithoutLast
  <2>4. frames[k] \in Frame /\ frames[k].at \in Nodes(file) /\ Top.result \in Verdicts
    <3>1. frames[k] \in Frame /\ frames[Len(frames)] \in Frame
      BY <1>1, <2>2
    <3>2. frames[k].at \in Nodes(file)
      BY <1>3, <2>2
    <3> QED
      BY <3>1, <3>2 DEF Top, Frame
  <2>5. r \in Frame
    BY <1>1, <2>4, VerdictTypes
  <2> HIDE DEF s, r
  <2>a. k \in Nat /\ k # 0
    BY <2>2
  <2>6. /\ frames' \in Seq(Frame) /\ Len(frames') = k
        /\ \A i \in 1 .. k : i < k => frames'[i] = s[i]
    BY <2>1, <2>3, <2>5, <2>a, ContinueTypes
  <2>7. \A i \in 1 .. k : i < k => frames'[i].at \in Nodes(file)
    BY <1>1, <1>3, <2>2, <2>3, <2>6
  <2>8. CallersInside'
    BY <1>1, <2>6, <2>7 DEF CallersInside
  <2>9. TypeOK'
    BY <1>1, <1>6, <2>6 DEF TypeOK, Frame, ReturnToCaller
  <2> QED
    BY <1>1, <2>8, <2>9 DEF TypeInv
<1> QED
  BY <1>5, <1>6 DEF InspectStep

LEMMA ReturnToWalkTypes == TypeInv /\ ReturnToWalk => TypeInv'
<1> SUFFICES ASSUME TypeInv, ReturnToWalk PROVE TypeInv'
  OBVIOUS
<1>1. /\ file \in Files /\ TypeOK /\ at \in Nodes(file) /\ Descend /\ frames' = <<>>
      /\ UNCHANGED <<file, phase, inGoroutineRunningTestFunc, processedFuncs>>
  BY DEF ReturnToWalk, ReportCallee, Inspected, TypeInv, CallersInside
<1>2. at' \in 1 .. Len(file.kind) + 1 /\ push' \in BOOLEAN
  BY <1>1, DescendMoves, FilesArePreorders DEF Nodes
<1>3. diagnostics' \in Seq(Diagnoses)
  BY <1>1, DiagnoseTypes DEF ReturnToWalk, ReportCallee
<1>4. TypeOK'
  BY <1>1, <1>2, <1>3 DEF TypeOK, Diagnoses
<1> QED
  BY <1>1, <1>4 DEF TypeInv, CallersInside

LEMMA EndTypes == TypeInv /\ (EndOfWalk \/ EndOfHandlers) => TypeInv'
<1> SUFFICES ASSUME TypeInv, EndOfWalk \/ EndOfHandlers PROVE TypeInv'
  OBVIOUS
<1>1. file \in Files /\ TypeOK /\ CallersInside /\ 1 \in 1 .. Len(file.kind) + 1
  BY FilesArePreorders DEF TypeInv
<1>2. CASE EndOfWalk
  BY <1>1, <1>2 DEF EndOfWalk, TypeInv, TypeOK, CallersInside
<1>3. CASE EndOfHandlers
  BY <1>1, <1>3 DEF EndOfHandlers, TypeInv, TypeOK, CallersInside
<1> QED
  BY <1>2, <1>3

LEMMA HandlerWalkTypes ==
  ASSUME TypeInv, HandlerWalk, frames = <<>>
  PROVE  TypeInv'
<1>1. file \in Files /\ TypeOK /\ at \in Nodes(file)
  BY FilesArePreorders DEF TypeInv, TypeOK, HandlerWalk
<1>2. at' = After(file, at) \/ at' = at + 1
  BY DEF HandlerWalk
<1>3. at' \in 1 .. Len(file.kind) + 1
  BY <1>1, <1>2, FilesArePreorders, AfterEnds
<1>4. diagnostics' \in Seq(Diagnoses)
  BY <1>1, DiagnoseTypes DEF HandlerWalk
<1>5. TypeOK'
  BY <1>1, <1>3, <1>4 DEF HandlerWalk, TypeOK, Diagnoses
<1> QED
  BY <1>1, <1>5 DEF TypeInv, CallersInside, HandlerWalk

(* checkFunc only runs in the walk over the package. *)
FramesInWalk == phase # "walk" => frames = <<>>

LEMMA InitTypes == Init => TypeInv /\ FramesInWalk
<1> SUFFICES ASSUME Init PROVE TypeInv /\ FramesInWalk
  OBVIOUS
<1>1. file \in Files /\ 1 \in 1 .. Len(file.kind) + 1
  BY FilesArePreorders DEF Init
<1> QED
  BY <1>1 DEF Init, TypeInv, TypeOK, CallersInside, FramesInWalk

LEMMA StepTypes == TypeInv /\ FramesInWalk /\ [Next]_vars => TypeInv' /\ FramesInWalk'
<1> SUFFICES ASSUME TypeInv, FramesInWalk, [Next]_vars PROVE TypeInv' /\ FramesInWalk'
  OBVIOUS
<1>1. TypeInv'
  <2>1. CASE UNCHANGED vars
    BY <2>1 DEF vars, TypeInv, TypeOK, CallersInside
  <2>2. CASE HandlerWalk
    <3>1. frames = <<>>
      BY <2>2 DEF HandlerWalk, FramesInWalk
    <3> QED
      BY <2>2, <3>1, HandlerWalkTypes
  <2> QED
    BY <2>1, <2>2, WalkStepTypes, InspectStepTypes, ReturnToWalkTypes, EndTypes
       DEF Next, WalkStep, InspectStep
<1>2. FramesInWalk'
  <2>1. CASE WalkStep
    BY <2>1, WalkStepMoves DEF FramesInWalk
  <2>2. CASE InspectStep
    BY <2>2, InspectMoves DEF FramesInWalk
  <2>3. CASE ReturnToWalk \/ EndOfWalk \/ HandlerWalk \/ EndOfHandlers
    BY <2>3 DEF FramesInWalk, ReturnToWalk, EndOfWalk, HandlerWalk, EndOfHandlers
  <2>4. CASE UNCHANGED vars
    BY <2>4 DEF vars, FramesInWalk
  <2> QED
    BY <2>1, <2>2, <2>3, <2>4 DEF Next, WalkStep, InspectStep
<1> QED
  BY <1>1, <1>2

LEMMA TypesHold == Spec => [](TypeInv /\ FramesInWalk)
BY InitTypes, StepTypes, PTL DEF Spec

(* Every variable keeps its type; in particular neither the walk nor       *)
(* checkFunc leaves the tree.                                              *)
THEOREM TypeCorrect == Spec => []TypeOK
<1>1. TypeInv => TypeOK
  BY DEF TypeInv
<1> QED
  BY <1>1, TypesHold, PTL
-----------------------------------------------------------------------------
(* The stack of statuses.  Around a node are the open nodes at its event.  *)
Around(n) == { m \in Nodes(file) : file.kind[m] \in ChangesStatus /\ Encloses(file, m, n) }

LEMMA OpenIsAround ==
  ASSUME at \in Nodes(file)
  PROVE  Open = IF ~ push /\ Kind \in ChangesStatus THEN Around(at) \cup {at} ELSE Around(at)
BY DEF Open, Around, Kind

LEMMA OpenAfterDescend ==
  ASSUME file \in Files, at \in Nodes(file), Descend, file' = file
  PROVE  Open' = IF Kind \in ChangesStatus THEN Around(at) \cup {at} ELSE Around(at)
<1>1. /\ at' \in Nodes(file) /\ push' \in BOOLEAN /\ IsPreorder(file) /\ at # 0
      /\ at' = IF push' THEN at + 1 ELSE at
      /\ push' => file.up[at'] = at
  BY DescendMoves, FilesArePreorders
<1>2. Open' = { n \in Nodes(file) : /\ file.kind[n] \in ChangesStatus
                                    /\ Encloses(file, n, at') \/ (n = at' /\ ~ push') }
  BY <1>1 DEF Open
<1>3. ASSUME NEW n \in Nodes(file)
      PROVE  Encloses(file, n, at') \/ (n = at' /\ ~ push') <=> n = at \/ Encloses(file, n, at)
  <2>1. CASE push'
    <3>1. Encloses(file, n, at') <=> file.up[at'] # 0 /\ (n = file.up[at'] \/ Encloses(file, n, file.up[at']))
      BY <1>1, EnclosesByParent
    <3> QED
      BY <1>1, <2>1, <3>1
  <2>2. CASE ~ push'
    BY <1>1, <2>2
  <2> QED
    BY <2>1, <2>2
<1> QED
  BY <1>2, <1>3 DEF Around, Kind

LEMMA OpenAfterLeave ==
  ASSUME file \in Files, at \in Nodes(file), Leave, file' = file
  PROVE  Open' = Around(at)
<1>1. /\ push' \in BOOLEAN /\ IsPreorder(file)
      /\ ~ push' => file.up[at] # 0 /\ at' = file.up[at] /\ at' \in Nodes(file)
      /\ push' /\ at' \in Nodes(file) => file.up[at'] = file.up[at]
      /\ at' \notin Nodes(file) => push' /\ file.up[at] = 0
  BY LeaveMoves, FilesArePreorders
<1>2. \A n \in Nodes(file) :
        Encloses(file, n, at) <=> file.up[at] # 0 /\ (n = file.up[at] \/ Encloses(file, n, file.up[at]))
  BY <1>1, EnclosesByParent
<1>3. CASE at' \notin Nodes(file)
  <2>1. Open' = {}
    BY <1>3 DEF Open
  <2>2. Around(at) = {}
    BY <1>1, <1>2, <1>3 DEF Around
  <2> QED
    BY <2>1, <2>2
<1>4. CASE at' \in Nodes(file)
  <2>1. Open' = { n \in Nodes(file) : /\ file.kind[n] \in ChangesStatus
                                      /\ Encloses(file, n, at') \/ (n = at' /\ ~ push') }
    BY <1>4 DEF Open
  <2>2. ASSUME NEW n \in Nodes(file)
        PROVE  Encloses(file, n, at') \/ (n = at' /\ ~ push') <=> Encloses(file, n, at)
    <3>1. CASE push'
      <4>1. Encloses(file, n, at') <=> file.up[at'] # 0 /\ (n = file.up[at'] \/ Encloses(file, n, file.up[at']))
        BY <1>1, <1>4, EnclosesByParent
      <4> QED
        BY <1>1, <1>2, <1>4, <3>1, <4>1
    <3>2. CASE ~ push'
      BY <1>1, <1>2, <3>2
    <3> QED
      BY <3>1, <3>2
  <2> QED
    BY <2>1, <2>2 DEF Around
<1> QED
  BY <1>3, <1>4

(* The stack s holds the statuses of the nodes of O, outermost first.      *)
Mirrors(s, O) ==
  /\ Len(s) = Cardinality(O)
  /\ \A n \in O : s[Cardinality({m \in O : m <= n})] = Status(file.kind[n])

LEMMA NodesAreFinite ==
  ASSUME file \in Files, NEW O \in SUBSET Nodes(file)
  PROVE  /\ IsFiniteSet(O) /\ Cardinality(O) \in Nat
         /\ Cardinality(O) = 0 <=> O = {}
         /\ \A n \in O : n \in Nat
<1>1. Len(file.kind) \in Nat /\ \A n \in Nodes(file) : n \in Nat
  BY FilesArePreorders
<1>2. IsFiniteSet(Nodes(file))
  BY <1>1, FS_Interval DEF Nodes
<1>3. IsFiniteSet(O)
  BY <1>2, FS_Subset
<1> QED
  BY <1>1, <1>3, FS_CardinalityType, FS_EmptySet

(* The rank of an open node is an index of the stack. *)
LEMMA RankInRange ==
  ASSUME file \in Files, NEW O \in SUBSET Nodes(file), NEW n \in O
  PROVE  Cardinality({m \in O : m <= n}) \in 1 .. Cardinality(O)
<1> DEFINE R == { m \in O : m <= n }
<1>1. R \in SUBSET O /\ R \in SUBSET Nodes(file) /\ n \in R
  BY NodesAreFinite
<1>2. /\ Cardinality(R) \in Nat /\ Cardinality(O) \in Nat
      /\ Cardinality(R) # 0 /\ Cardinality(R) <= Cardinality(O)
  <2>1. IsFiniteSet(O) /\ Cardinality(O) \in Nat /\ Cardinality(R) \in Nat /\ Cardinality(R) # 0
    BY <1>1, NodesAreFinite
  <2>2. Cardinality(R) <= Cardinality(O)
    BY <1>1, <2>1, FS_Subset
  <2> QED
    BY <2>1, <2>2
<1> QED
  BY <1>2

LEMMA MirrorsPush ==
  ASSUME file \in Files, NEW s \in Seq(BOOLEAN), NEW O \in SUBSET Nodes(file), Mirrors(s, O),
         NEW x \in Nodes(file), \A n \in O : n < x, Status(file.kind[x]) \in BOOLEAN
  PROVE  Mirrors(Append(s, Status(file.kind[x])), O \cup {x})
<1> DEFINE v == Status(file.kind[x])
           P == O \cup {x}
           t == Append(s, v)
<1>1. /\ IsFiniteSet(O) /\ Cardinality(O) \in Nat /\ x \in Nat /\ x \notin O
      /\ \A n \in O : n \in Nat
  BY NodesAreFinite, FilesArePreorders
<1>2. Cardinality(P) = Cardinality(O) + 1
  BY <1>1, FS_AddElement
<1>3. Len(s) = Cardinality(O)
  BY DEF Mirrors
<1>4. Len(t) = Len(s) + 1 /\ t[Len(s) + 1] = v /\ \A i \in 1 .. Len(s) : t[i] = s[i]
  OBVIOUS
<1> HIDE DEF t, v
<1>5. ASSUME NEW n \in O PROVE t[Cardinality({m \in P : m <= n})] = Status(file.kind[n])
  <2>1. {m \in P : m <= n} = {m \in O : m <= n}
    BY <1>1
  <2>2. Cardinality({m \in O : m <= n}) \in 1 .. Len(s)
    BY <1>3, RankInRange
  <2> QED
    BY <1>4, <2>1, <2>2 DEF Mirrors
<1>6. t[Cardinality({m \in P : m <= x})] = Status(file.kind[x])
  <2>1. {m \in P : m <= x} = P
    BY <1>1
  <2>2. Cardinality({m \in P : m <= x}) = Len(s) + 1
    BY <1>2, <1>3, <2>1
  <2>3. t[Len(s) + 1] = Status(file.kind[x])
    BY <1>4 DEF v
  <2> QED
    BY <2>2, <2>3
<1>7. Mirrors(t, P)
  BY <1>2, <1>3, <1>4, <1>5, <1>6 DEF Mirrors
<1> QED
  BY <1>7 DEF t, v

LEMMA MirrorsPop ==
  ASSUME file \in Files, NEW s \in Seq(BOOLEAN), NEW O \in SUBSET Nodes(file),
         NEW x \in Nodes(file), \A n \in O : n < x, Mirrors(s, O \cup {x})
  PROVE  s # <<>> /\ Mirrors(SubSeq(s, 1, Len(s) - 1), O)
<1> DEFINE P == O \cup {x}
           k == Cardinality(O)
           t == SubSeq(s, 1, k)
<1>1. /\ IsFiniteSet(O) /\ k \in Nat /\ x \in Nat /\ x \notin O /\ \A n \in O : n \in Nat
  BY NodesAreFinite, FilesArePreorders
<1>2. Cardinality(P) = k + 1
  BY <1>1, FS_AddElement
<1>3. Len(s) = k + 1
  BY <1>2 DEF Mirrors
<1> HIDE DEF k
<1>4. Len(t) = k /\ \A i \in 1 .. k : t[i] = s[i]
  BY <1>1, <1>3, WithoutLast
<1>5. ASSUME NEW n \in O PROVE t[Cardinality({m \in O : m <= n})] = Status(file.kind[n])
  <2>1. {m \in P : m <= n} = {m \in O : m <= n}
    BY <1>1
  <2>2. Cardinality({m \in O : m <= n}) \in 1 .. k
    BY RankInRange DEF k
  <2>3. s[Cardinality({m \in P : m <= n})] = Status(file.kind[n])
    BY DEF Mirrors
  <2> QED
    BY <1>4, <2>1, <2>2, <2>3
<1>6. Mirrors(t, O)
  BY <1>4, <1>5 DEF Mirrors, k
<1>7. s # <<>> /\ Len(s) - 1 = k
  BY <1>1, <1>3
<1> QED
  BY <1>6, <1>7

(* The innermost open node decides. *)
LEMMA MirrorsLast ==
  ASSUME file \in Files, NEW s \in Seq(BOOLEAN), NEW O \in SUBSET Nodes(file), Mirrors(s, O)
  PROVE  /\ s = <<>> <=> O = {}
         /\ \A x \in O : (\A n \in O : n <= x) => s[Len(s)] = Status(file.kind[x])
<1>1. Len(s) = Cardinality(O) /\ (Cardinality(O) = 0 <=> O = {})
  BY NodesAreFinite DEF Mirrors
<1>2. s = <<>> <=> O = {}
  BY <1>1
<1>3. ASSUME NEW x \in O, \A n \in O : n <= x PROVE s[Len(s)] = Status(file.kind[x])
  <2>1. {m \in O : m <= x} = O
    BY <1>3
  <2>2. s[Cardinality({m \in O : m <= x})] = Status(file.kind[x])
    BY DEF Mirrors
  <2> QED
    BY <1>1, <2>1, <2>2
<1> QED
  BY <1>2, <1>3

LEMMA OpenIsInTree ==
  ASSUME file \in Files, at \in Nodes(file)
  PROVE  /\ Open \in SUBSET Nodes(file) /\ Around(at) \in SUBSET Nodes(file)
         /\ \A n \in Around(at) : n < at
         /\ at \notin Around(at)
BY FilesArePreorders DEF Open, Around, Encloses

LEMMA WalkStepStack ==
  ASSUME TypeInv, StackMirrorsContext, WalkStep
  PROVE  StackMirrorsContext'
<1> DEFINE s == inGoroutineRunningTestFunc
<1>1. /\ file \in Files /\ at \in Nodes(file) /\ phase = "walk" /\ s \in Seq(BOOLEAN)
      /\ file' = file
  BY WalkStepMoves DEF TypeInv, TypeOK
<1>2. Mirrors(s, Open)
  BY <1>1 DEF StackMirrorsContext, Mirrors
<1>3. /\ Around(at) \in SUBSET Nodes(file) /\ at \notin Around(at)
      /\ \A n \in Around(at) : n < at
  BY <1>1, OpenIsInTree
<1>4. Mirrors(s', Open')
  <2>1. CASE EnterStatus
    <3>1. /\ push /\ Kind \in ChangesStatus /\ Descend
          /\ s' = Append(s, Status(file.kind[at]))
      BY <2>1 DEF EnterStatus, Push, Kind
    <3>2. Open = Around(at) /\ Open' = Around(at) \cup {at}
      BY <1>1, <3>1, OpenIsAround, OpenAfterDescend
    <3>3. Status(file.kind[at]) \in BOOLEAN
      BY <3>1 DEF Kind, Status, ChangesStatus
    <3> QED
      BY <1>1, <1>2, <1>3, <3>1, <3>2, <3>3, MirrorsPush
  <2>2. CASE LeaveStatus
    <3>1. ~ push /\ Kind \in ChangesStatus /\ Leave /\ Pop
      BY <2>2 DEF LeaveStatus
    <3>2. Open = Around(at) \cup {at} /\ Open' = Around(at)
      BY <1>1, <3>1, OpenIsAround, OpenAfterLeave
    <3>3. s # <<>> /\ Mirrors(SubSeq(s, 1, Len(s) - 1), Around(at))
      BY <1>1, <1>2, <1>3, <3>2, MirrorsPop
    <3>4. s' = SubSeq(s, 1, Len(s) - 1)
      BY <3>1, <3>3 DEF Pop
    <3> QED
      BY <3>2, <3>3, <3>4
  <2>3. CASE ~ EnterStatus /\ ~ LeaveStatus
    <3>1. s' = s
      BY <2>3 DEF WalkStep, SkipFuncDecl, Unfiltered, PassCall, CheckAssertion,
         PassUnknownCall, CheckCallee
    <3>2. CASE UNCHANGED <<at, push>>
      <4>1. Open' = Open
        BY <1>1, <3>2 DEF Open
      <4> QED
        BY <1>2, <3>1, <4>1
    <3>3. CASE Descend /\ ~ Leave /\ ~ UNCHANGED <<at, push>>
      <4>1. push /\ Kind \notin ChangesStatus
        BY <2>3, <3>3 DEF WalkStep, SkipFuncDecl, Unfiltered, PassCall, CheckAssertion,
           PassUnknownCall, CheckCallee, InCall, ChangesStatus, CallExprs, Testify
      <4>2. Open = Around(at) /\ Open' = Around(at)
        BY <1>1, <3>3, <4>1, OpenIsAround, OpenAfterDescend
      <4> QED
        BY <1>2, <3>1, <4>2
    <3>4. CASE Leave
      <4>1. Kind \notin ChangesStatus \/ push
        BY <2>3, <3>4 DEF WalkStep, SkipFuncDecl, Unfiltered, PassCall, CheckAssertion,
           PassUnknownCall, CheckCallee, InCall
      <4>2. Open = Around(at) /\ Open' = Around(at)
        BY <1>1, <3>4, <4>1, OpenIsAround, OpenAfterLeave
      <4> QED
        BY <1>2, <3>1, <4>2
    <3> QED
      BY <3>2, <3>3, <3>4, WalkStepMoves
  <2> QED
    BY <2>1, <2>2, <2>3
<1> QED
  BY <1>1, <1>4 DEF StackMirrorsContext, Mirrors

-----------------------------------------------------------------------------
(* The shapes of checkFunc's steps. *)
LEMMA ContinueShape ==
  ASSUME TypeInv, Inspecting, NEW r \in Frame, Continue(r)
  PROVE  /\ Len(frames) \in Nat /\ Len(frames) # 0
         /\ Len(frames') = Len(frames) /\ frames'[Len(frames)] = r
         /\ \A i \in 1 .. Len(frames) : i < Len(frames) => frames'[i] = frames[i]
<1>1. Len(frames) \in Nat /\ Len(frames) # 0 /\ frames \in Seq(Frame)
  BY TopIsInside DEF TypeInv, TypeOK, Frame
<1> QED
  BY <1>1, ContinueTypes DEF Continue

LEMMA ReturnShape ==
  ASSUME TypeInv, ReturnToCaller, NEW k, k = Len(frames) - 1
  PROVE  /\ k \in Nat /\ k # 0 /\ Len(frames) = k + 1 /\ Len(frames') = k
         /\ frames[k] \in Frame /\ frames[k].at \in Nodes(file)
         /\ frames[k + 1] = Top /\ Top \in Frame
         /\ frames'[k] = TakeVerdict(frames[k], Top.result)
         /\ \A i \in 1 .. k : i < k => frames'[i] = frames[i]
<1>1. /\ file \in Files /\ frames \in Seq(Frame) /\ Len(frames) \in Nat /\ Len(frames) > 1
      /\ frames' = [SubSeq(frames, 1, k) EXCEPT ![k] = TakeVerdict(frames[k], Top.result)]
  BY DEF TypeInv, TypeOK, Frame, ReturnToCaller
<1>2. k \in Nat /\ k # 0 /\ Len(frames) = k + 1 /\ k \in 1 .. Len(frames) /\ k < Len(frames)
  BY <1>1
<1>3. /\ SubSeq(frames, 1, k) \in Seq(Frame) /\ Len(SubSeq(frames, 1, k)) = k
      /\ \A i \in 1 .. k : SubSeq(frames, 1, k)[i] = frames[i]
  BY <1>1, <1>2, WithoutLast
<1>4. frames[k] \in Frame /\ frames[k].at \in Nodes(file) /\ Top \in Frame /\ Top = frames[k + 1]
  BY <1>1, <1>2 DEF Top, TypeInv, CallersInside
<1>5. TakeVerdict(frames[k], Top.result) \in Frame
  BY <1>1, <1>4, VerdictTypes DEF Frame
<1> DEFINE s == SubSeq(frames, 1, k)
           r == TakeVerdict(frames[k], Top.result)
<1>6. frames' = [s EXCEPT ![k] = r] /\ s \in Seq(Frame) /\ Len(s) = k /\ r \in Frame
  BY <1>1, <1>3, <1>5
<1> HIDE DEF s, r
<1>7. /\ Len(frames') = k /\ frames'[k] = r
      /\ \A i \in 1 .. k : i < k => frames'[i] = s[i]
  BY <1>2, <1>6, ContinueTypes
<1> QED
  BY <1>2, <1>3, <1>4, <1>7 DEF s, r

LEMMA CallShape ==
  ASSUME TypeInv, InspectCall, CalledDecl(Top.at) \notin DOMAIN processedFuncs,
         NEW k, k = Len(frames)
  PROVE  /\ k \in Nat /\ k # 0 /\ Len(frames') = k + 1
         /\ frames'[k + 1] = Activation(CalledDecl(Top.at))
         /\ \A i \in 1 .. k : frames'[i] = frames[i]
         /\ CalledDecl(Top.at) # 0 /\ CalledDecl(Top.at) # Top.fd
<1>1. /\ frames' = Append(frames, Activation(CalledDecl(Top.at)))
      /\ CalledDecl(Top.at) # 0 /\ CalledDecl(Top.at) # Top.fd /\ Inspecting
  BY DEF InspectCall, Passable
<1>2. frames \in Seq(Frame) /\ k \in Nat /\ k # 0
  BY <1>1, TopIsInside DEF TypeInv, TypeOK, Frame
<1>3. CalledDecl(Top.at) \in Nodes(file) /\ Activation(CalledDecl(Top.at)) \in Frame
  BY <1>1, TopIsInside, CalleesAreTests, ActivationType DEF TypeInv
<1> QED
  BY <1>1, <1>2, <1>3

(* What an activation does next leaves its function alone. *)
LEMMA InspectNext ==
  ASSUME TypeInv, InspectGo \/ InspectAssertion \/ InspectOther \/ InspectCall,
         ~ (InspectCall /\ CalledDecl(Top.at) \notin DOMAIN processedFuncs)
  PROVE  \E r \in Frame : Continue(r) /\ r.fd = Top.fd
<1>1. Inspecting
  BY DEF InspectGo, InspectAssertion, InspectOther, InspectCall
<1>2. file \in Files /\ Top \in Frame /\ Top.at \in Nodes(file)
  BY <1>1, TopIsInside DEF TypeInv
<1>3. \A v \in Verdicts : /\ TakeVerdict(Top, v) \in Frame /\ TakeVerdict(Top, v).fd = Top.fd
                          /\ [Past(Top) EXCEPT !.result = v] \in Frame
                          /\ [Past(Top) EXCEPT !.result = v].fd = Top.fd
  <2> SUFFICES ASSUME NEW v \in Verdicts
               PROVE  /\ TakeVerdict(Top, v) \in Frame /\ TakeVerdict(Top, v).fd = Top.fd
                      /\ [Past(Top) EXCEPT !.result = v] \in Frame
                      /\ [Past(Top) EXCEPT !.result = v].fd = Top.fd
    OBVIOUS
  <2>1. Past(Top) \in Frame /\ TakeVerdict(Top, v) \in Frame
    BY <1>2, VerdictTypes
  <2>2. [Past(Top) EXCEPT !.result = v] \in Frame
    BY <2>1 DEF Frame
  <2> QED
    BY <1>2, <2>1, <2>2 DEF Frame, TakeVerdict, Past, Into
<1>4. /\ Into(Top) \in Frame /\ Into(Top).fd = Top.fd
      /\ Past(Top) \in Frame /\ Past(Top).fd = Top.fd
  <2>1. "NoExit" \in Verdicts
    BY DEF Verdicts
  <2>2. Into(Top) \in Frame /\ Past(Top) \in Frame
    BY <1>2, <2>1, VerdictTypes
  <2> QED
    BY <1>2, <2>2 DEF Frame, Into, Past
<1>5. CASE InspectAssertion
  <2>1. checkCall(Top.at) \in Verdicts
    BY <1>5 DEF InspectAssertion, checkCall, Testify, Verdicts
  <2> QED
    BY <1>3, <1>5, <2>1 DEF InspectAssertion
<1>6. CASE InspectCall
  <2>1. CalledDecl(Top.at) \in DOMAIN processedFuncs
    BY <1>6
  <2>2. processedFuncs[CalledDecl(Top.at)] \in Verdicts
    BY <2>1 DEF TypeInv, TypeOK
  <2> QED
    BY <1>3, <1>6, <2>1, <2>2 DEF InspectCall
<1>7. CASE InspectGo \/ InspectOther
  BY <1>4, <1>7 DEF InspectGo, InspectOther
<1> QED
  BY <1>5, <1>6, <1>7

(* checkFunc never forgets what the walk called it for. *)
LEMMA InspectKeepsFirst ==
  ASSUME TypeInv, InspectStep
  PROVE  frames' # <<>> /\ frames'[1].fd = frames[1].fd
<1>1. CASE ReturnToCaller
  <2> DEFINE k == Len(frames) - 1
  <2>1. /\ k \in Nat /\ k # 0 /\ Len(frames') = k /\ frames[k] \in Frame
        /\ frames'[k] = TakeVerdict(frames[k], Top.result)
        /\ \A i \in 1 .. k : i < k => frames'[i] = frames[i]
    BY <1>1, ReturnShape
  <2>2. frames'[k].fd = frames[k].fd
    BY <2>1 DEF TakeVerdict, Past, Into, Frame
  <2> HIDE DEF k
  <2>3. CASE k = 1
    BY <2>1, <2>2, <2>3
  <2>4. CASE k # 1
    BY <2>1, <2>4
  <2> QED
    BY <2>3, <2>4
<1>2. CASE InspectCall /\ CalledDecl(Top.at) \notin DOMAIN processedFuncs
  <2> DEFINE k == Len(frames)
  <2>1. /\ k \in Nat /\ k # 0 /\ Len(frames') = k + 1
        /\ \A i \in 1 .. k : frames'[i] = frames[i]
    BY <1>2, CallShape
  <2> HIDE DEF k
  <2> QED
    BY <2>1
<1>3. CASE ~ ReturnToCaller /\ ~ (InspectCall /\ CalledDecl(Top.at) \notin DOMAIN processedFuncs)
  <2> DEFINE k == Len(frames)
  <2>1. Inspecting
    BY <1>3 DEF InspectStep, InspectGo, InspectAssertion, InspectOther, InspectCall
  <2>2. PICK r \in Frame : Continue(r) /\ r.fd = Top.fd
    BY <1>3, InspectNext DEF InspectStep
  <2>3. /\ k \in Nat /\ k # 0 /\ Len(frames') = k /\ frames'[k] = r
        /\ \A i \in 1 .. k : i < k => frames'[i] = frames[i]
    BY <2>1, <2>2, ContinueShape
  <2>4. frames'[k].fd = frames[k].fd
    BY <2>2, <2>3 DEF Top
  <2> HIDE DEF k
  <2>5. CASE k = 1
    BY <2>3, <2>4, <2>5
  <2>6. CASE k # 1
    BY <2>3, <2>6
  <2> QED
    BY <2>5, <2>6
<1> QED
  BY <1>1, <1>2, <1>3

LEMMA StepWaits ==
  TypeInv /\ FramesInWalk /\ WalkWaits /\ [Next]_vars => WalkWaits'
<1> SUFFICES ASSUME TypeInv, FramesInWalk, WalkWaits, [Next]_vars, frames' # <<>>
             PROVE  /\ phase' = "walk" /\ at' \in Nodes(file') /\ push'
                    /\ ~ Permitted' /\ CalledDecl(at)' # 0 /\ frames'[1].fd = CalledDecl(at)'
  BY DEF WalkWaits
<1>1. CASE InspectStep \/ UNCHANGED vars
  <2>1. UNCHANGED <<file, phase, at, push, inGoroutineRunningTestFunc>> /\ frames # <<>>
    BY <1>1, InspectMoves DEF vars
  <2>2. frames'[1].fd = frames[1].fd
    BY <1>1, InspectKeepsFirst DEF vars
  <2> QED
    BY <2>1, <2>2 DEF WalkWaits, Permitted, Last, CalledDecl, IsTesting
<1>2. CASE WalkStep
  <2>1. CheckCallee /\ frames' = <<Activation(CalledDecl(at))>>
    BY <1>2 DEF WalkStep, EnterStatus, LeaveStatus, SkipFuncDecl, Unfiltered, PassCall,
       CheckAssertion, PassUnknownCall, CheckCallee, InCall, Walking
  <2>2. /\ UNCHANGED <<file, phase, at, push, inGoroutineRunningTestFunc>>
        /\ phase = "walk" /\ at \in Nodes(file) /\ push /\ ~ Permitted /\ CalledDecl(at) # 0
    <3>1. frames' # frames
      BY <1>2, <2>1, WalkStepMoves
    <3>2. UNCHANGED <<at, push>>
      BY <1>2, <3>1, WalkStepMoves
    <3> QED
      BY <1>2, <2>1, <3>2, WalkStepMoves DEF CheckCallee, InCall
  <2>3. frames'[1].fd = CalledDecl(at)
    BY <2>1 DEF Activation
  <2> QED
    BY <2>2, <2>3 DEF Permitted, Last, CalledDecl, IsTesting
<1>3. ~ (ReturnToWalk \/ EndOfWalk \/ HandlerWalk \/ EndOfHandlers)
  BY DEF ReturnToWalk, EndOfWalk, HandlerWalk, EndOfHandlers, FramesInWalk
<1> QED
  BY <1>1, <1>2, <1>3 DEF Next, WalkStep, InspectStep
-----------------------------------------------------------------------------
LEMMA InitStack == Init => StackMirrorsContext
<1> SUFFICES ASSUME Init PROVE StackMirrorsContext
  OBVIOUS
<1>1. file \in Files /\ at = 1 /\ push = TRUE /\ inGoroutineRunningTestFunc = <<>>
  BY DEF Init
<1>2. Open = {}
  BY <1>1, FilesArePreorders DEF Open, Encloses
<1> QED
  BY <1>1, <1>2, FS_EmptySet DEF StackMirrorsContext

LEMMA StepStack ==
  TypeInv /\ WalkWaits /\ StackMirrorsContext /\ [Next]_vars => StackMirrorsContext'
<1> SUFFICES ASSUME TypeInv, WalkWaits, StackMirrorsContext, [Next]_vars PROVE StackMirrorsContext'
  OBVIOUS
<1>1. CASE InspectStep \/ UNCHANGED vars
  <2>1. UNCHANGED <<file, phase, at, push, inGoroutineRunningTestFunc>>
    BY <1>1, InspectMoves DEF vars
  <2>2. Open' = Open
    BY <2>1 DEF Open
  <2> QED
    BY <2>1, <2>2 DEF StackMirrorsContext
<1>2. CASE ReturnToWalk
  <2>1. /\ file \in Files /\ at \in Nodes(file) /\ phase = "walk" /\ Descend
        /\ UNCHANGED <<file, phase, inGoroutineRunningTestFunc>>
    BY <1>2 DEF ReturnToWalk, ReportCallee, Inspected, TypeInv, CallersInside
  <2>2. push /\ Kind = "call"
    BY <1>2, <2>1, CalleesAreTests DEF WalkWaits, ReturnToWalk, Inspected, Kind
  <2>3. Open' = Open
    BY <2>1, <2>2, OpenIsAround, OpenAfterDescend DEF ChangesStatus
  <2> QED
    BY <2>1, <2>3 DEF StackMirrorsContext
<1>3. CASE EndOfWalk \/ HandlerWalk \/ EndOfHandlers
  BY <1>3 DEF EndOfWalk, HandlerWalk, EndOfHandlers, StackMirrorsContext
<1> QED
  BY <1>1, <1>2, <1>3, WalkStepStack DEF Next, WalkStep, InspectStep

LEMMA ContextHolds ==
  Spec => [](TypeInv /\ FramesInWalk /\ WalkWaits /\ StackMirrorsContext)
<1>1. Init => WalkWaits
  BY DEF Init, WalkWaits
<1> QED
  BY <1>1, InitTypes, StepTypes, StepWaits, InitStack, StepStack, PTL DEF Spec

(* Pushes and pops of the boolStack stay paired on every tree, although    *)
(* the nodes that a callback prunes are never left: what Last() answers is *)
(* the status of the innermost node around the event.                      *)
THEOREM StackCorrect == Spec => []StackMirrorsContext
BY ContextHolds, PTL
-----------------------------------------------------------------------------
(* What has been reported. *)
LEMMA ReportedSame ==
  ASSUME NEW S, diagnostics' = diagnostics
  PROVE  Reported(S)' = Reported(S)
BY DEF Reported

LEMMA ReportedMore ==
  ASSUME TypeOK, NEW S, NEW n, NEW a, Diagnose(n, a)
  PROVE  Reported(S)' = IF a \in S THEN Reported(S) \cup {n} ELSE Reported(S)
<1> DEFINE k == Len(diagnostics)
           d == Diagnostic(n, a)
<1>1. diagnostics' = Append(diagnostics, d) /\ diagnostics \in Seq(Diagnoses)
  BY DEF Diagnose, TypeOK, Diagnoses
<1>2. /\ k \in Nat /\ Len(diagnostics') = k + 1
      /\ diagnostics'[k + 1] = d
      /\ \A i \in 1 .. k : diagnostics'[i] = diagnostics[i]
  BY <1>1
<1>3. d.node = n /\ d.about = a
  BY DEF Diagnostic
<1> HIDE DEF k, d
<1>4. Reported(S) = { diagnostics[i].node : i \in { j \in 1 .. k : diagnostics[j].about \in S } }
  BY DEF Reported, k
<1>5. Reported(S)' = { diagnostics'[i].node : i \in { j \in 1 .. k + 1 : diagnostics'[j].about \in S } }
  BY <1>2 DEF Reported
<1>6. ASSUME NEW x \in Reported(S)'
      PROVE  x \in Reported(S) \/ (x = n /\ a \in S)
  <2>1. PICK i \in 1 .. k + 1 : diagnostics'[i].about \in S /\ x = diagnostics'[i].node
    BY <1>5
  <2>2. CASE i = k + 1
    BY <1>2, <1>3, <2>1, <2>2
  <2>3. CASE i # k + 1
    <3>1. i \in 1 .. k
      BY <1>2, <2>3
    <3> QED
      BY <1>2, <1>4, <2>1, <3>1
  <2> QED
    BY <2>2, <2>3
<1>7. Reported(S) \subseteq Reported(S)'
  <2> SUFFICES ASSUME NEW i \in 1 .. k, diagnostics[i].about \in S
               PROVE  diagnostics[i].node \in Reported(S)'
    BY <1>4
  <2>1. i \in 1 .. k + 1
    BY <1>2
  <2> QED
    BY <1>2, <1>5, <2>1
<1>8. a \in S => n \in Reported(S)'
  <2>1. k + 1 \in 1 .. k + 1
    BY <1>2
  <2> QED
    BY <1>2, <1>3, <1>5, <2>1
<1> QED
  BY <1>6, <1>7, <1>8
-----------------------------------------------------------------------------
(* The last walk: handlers. *)
LEMMA InHandlerIsOwned ==
  ASSUME file \in Files, NEW n \in Nodes(file)
  PROVE  InHandler(n) <=> HandlerOwns(n)
<1>1. IsPreorder(file) /\ \A m \in Nodes(file) : m \in Nat
  BY FilesArePreorders
<1>2. ASSUME NEW h \in Nodes(file), Encloses(file, h, n)
      PROVE  (\A m \in Nodes(file) : file.kind[m] \in Funcs /\ Encloses(file, m, n) => m <= h)
             <=> ~ \E m \in Nodes(file) :
                     file.kind[m] \in Funcs /\ Encloses(file, h, m) /\ Encloses(file, m, n)
  <2>1. ASSUME NEW m \in Nodes(file), Encloses(file, m, n)
        PROVE  m <= h <=> ~ Encloses(file, h, m)
    <3>1. Encloses(file, h, m) => h < m
      BY DEF Encloses
    <3>2. h < m => Encloses(file, h, m)
      <4>1. m <= n
        BY <1>1, <2>1 DEF Encloses
      <4> QED
        BY <1>1, <1>2, <4>1, EnclosesPrefix
    <3> QED
      BY <1>1, <3>1, <3>2
  <2> QED
    BY <2>1
<1> QED
  BY <1>2 DEF InHandler, HandlerOwns

LEMMA InitHandlers == Init => HandlerReports
<1> SUFFICES ASSUME Init PROVE HandlerReports
  OBVIOUS
<1>1. phase = "walk" /\ diagnostics = <<>>
  BY DEF Init
<1>2. Reported({"handler"}) = {}
  BY <1>1 DEF Reported
<1> QED
  BY <1>1, <1>2 DEF HandlerReports

LEMMA HandlerWalkReports ==
  ASSUME TypeInv, HandlerReports, HandlerWalk
  PROVE  HandlerReports'
<1>1. /\ file \in Files /\ TypeOK /\ at \in Nodes(file) /\ phase = "handlers"
      /\ file' = file /\ phase' = phase
  <2>1. /\ file \in Files /\ TypeOK /\ phase = "handlers" /\ at <= Len(file.kind)
        /\ file' = file /\ phase' = phase
    BY DEF TypeInv, HandlerWalk
  <2>2. at \in Nodes(file)
    BY <2>1, FilesArePreorders DEF TypeOK
  <2> QED
    BY <2>1, <2>2
<1>2. /\ IsPreorder(file) /\ at \in Nat /\ Len(file.kind) \in Nat
      /\ \A n \in Nodes(file) : n \in Nat
  BY <1>1, FilesArePreorders
<1>3. /\ ~ IgnoreHTTPHandlers
      /\ Reported({"handler"}) = { n \in HandlerToReport : n < at }
      /\ \A m \in Nodes(file) : Encloses(file, m, at) => ~ HandlerJudged(m)
  BY <1>1 DEF HandlerReports
<1>4. HandlerToReport' = HandlerToReport
  BY <1>1 DEF HandlerToReport, HandlerOwns, HandlerJudged
<1>5. at \in HandlerToReport <=> HandlerJudged(at) /\ checkCall(at) # "NoExit"
  <2>1. HandlerJudged(at) => (checkCall(at) # "NoExit" <=> file.kind[at] \in {"require", "failnow"})
    BY DEF HandlerJudged, checkCall, Testify
  <2>2. at \in HandlerToReport <=> file.kind[at] \in {"require", "failnow"} /\ HandlerOwns(at)
    BY <1>1, <1>3 DEF HandlerToReport
  <2> QED
    BY <2>1, <2>2 DEF HandlerJudged, Testify
<1>6. /\ Reported({"handler"})' = { n \in HandlerToReport : n < at' }
      /\ at' \in Nodes(file) =>
           \A m \in Nodes(file) : Encloses(file, m, at') => ~ HandlerJudged(m)
  <2>1. CASE HandlerJudged(at)
    <3>1. /\ at' = After(file, at)
          /\ IF checkCall(at) # "NoExit" THEN Diagnose(at, "handler") ELSE UNCHANGED diagnostics
      BY <1>1, <2>1, InHandlerIsOwned DEF HandlerWalk, HandlerJudged, Kind
    <3>2. Reported({"handler"})' =
            Reported({"handler"}) \cup (IF checkCall(at) # "NoExit" THEN {at} ELSE {})
      BY <1>1, <3>1, ReportedMore, ReportedSame
    <3>3. /\ at' \in Nat /\ at < at'
          /\ \A n \in Nodes(file) : Encloses(file, at, n) <=> at < n /\ n < at'
      BY <1>1, <1>2, <3>1, AfterEnds
    <3>4. ASSUME NEW n \in HandlerToReport PROVE n < at' <=> n < at \/ n = at
      <4>1. n \in Nodes(file) /\ ~ Encloses(file, at, n)
        BY <1>1, <2>1 DEF HandlerToReport
      <4> QED
        BY <1>2, <3>3, <4>1
    <3>5. ASSUME at' \in Nodes(file), NEW m \in Nodes(file), Encloses(file, m, at')
          PROVE  Encloses(file, m, at)
      BY <1>1, <1>2, <3>1, <3>5, AroundAfter
    <3> QED
      BY <1>3, <1>5, <2>1, <3>2, <3>4, <3>5
  <2>2. CASE ~ HandlerJudged(at)
    <3>1. at' = at + 1 /\ diagnostics' = diagnostics
      BY <1>1, <2>2, InHandlerIsOwned DEF HandlerWalk, HandlerJudged, Kind
    <3>2. ASSUME NEW n \in HandlerToReport PROVE n < at' <=> n < at
      BY <1>2, <1>5, <2>2, <3>1 DEF HandlerToReport
    <3>3. ASSUME at' \in Nodes(file), NEW m \in Nodes(file), Encloses(file, m, at')
          PROVE  m = at \/ Encloses(file, m, at)
      BY <1>1, <1>2, <3>1, <3>3, AroundNext
    <3>4. Reported({"handler"})' = Reported({"handler"})
      BY <3>1, ReportedSame
    <3> QED
      BY <1>3, <2>2, <3>2, <3>3, <3>4
  <2> QED
    BY <2>1, <2>2
<1>7. \A m : HandlerJudged(m)' <=> HandlerJudged(m)
  BY <1>1 DEF HandlerJudged, HandlerOwns
<1> QED
  BY <1>1, <1>3, <1>4, <1>6, <1>7 DEF HandlerReports

LEMMA StepHandlers == TypeInv /\ FramesInWalk /\ HandlerReports /\ [Next]_vars => HandlerReports'
<1> SUFFICES ASSUME TypeInv, FramesInWalk, HandlerReports, [Next]_vars PROVE HandlerReports'
  OBVIOUS
<1>1. file \in Files /\ TypeOK
  BY DEF TypeInv
<1>2. file' = file => HandlerToReport' = HandlerToReport /\ \A m : HandlerJudged(m)' <=> HandlerJudged(m)
  BY DEF HandlerToReport, HandlerOwns, HandlerJudged
<1>3. CASE WalkStep \/ ReturnToWalk \/ InspectStep
  <2>1. phase = "walk" /\ phase' = "walk" /\ file' = file
    BY <1>3, WalkStepMoves, InspectMoves DEF ReturnToWalk, Inspected
  <2>2. diagnostics' = diagnostics \/ \E a \in {"goroutine", "callee"} : Diagnose(at, a)
    BY <1>3, InspectMoves
       DEF WalkStep, EnterStatus, LeaveStatus, SkipFuncDecl, Unfiltered, PassCall, CheckAssertion,
           PassUnknownCall, CheckCallee, ReportCallee, ReturnToWalk
  <2>3. Reported({"handler"})' = Reported({"handler"})
    <3>1. ASSUME NEW a \in {"goroutine", "callee"}, Diagnose(at, a)
          PROVE  Reported({"handler"})' = Reported({"handler"})
      BY <1>1, <3>1, ReportedMore
    <3> QED
      BY <2>2, <3>1, ReportedSame
  <2> QED
    BY <2>1, <2>3 DEF HandlerReports
<1>4. CASE EndOfWalk
  <2>1. /\ phase = "walk" /\ phase' = IF IgnoreHTTPHandlers THEN "done" ELSE "handlers"
        /\ at' = 1 /\ file' = file /\ Reported({"handler"})' = {}
    BY <1>4, ReportedSame DEF EndOfWalk, HandlerReports
  <2>2. \A n \in Nodes(file) : ~ (n < 1) /\ ~ Encloses(file, n, 1)
    BY <1>1, FilesArePreorders DEF Encloses
  <2>3. HandlerToReport \subseteq Nodes(file)
    BY DEF HandlerToReport
  <2> QED
    BY <1>2, <2>1, <2>2, <2>3 DEF HandlerReports
<1>5. CASE EndOfHandlers
  <2>1. /\ phase = "handlers" /\ phase' = "done" /\ at > Len(file.kind)
        /\ file' = file /\ Reported({"handler"})' = Reported({"handler"})
    BY <1>5, ReportedSame DEF EndOfHandlers
  <2>2. \A n \in HandlerToReport : n < at
    BY <1>1, <2>1, FilesArePreorders DEF HandlerToReport, TypeOK
  <2> QED
    BY <1>2, <2>1, <2>2 DEF HandlerReports
<1>6. CASE UNCHANGED vars
  <2>1. UNCHANGED <<file, phase, at, diagnostics>>
    BY <1>6 DEF vars
  <2> QED
    BY <1>2, <2>1, ReportedSame DEF HandlerReports
<1> QED
  BY <1>3, <1>4, <1>5, <1>6, HandlerWalkReports DEF Next, WalkStep, InspectStep

(* Every exiting assertion that runs in an HTTP handler is reported, those *)
(* in the arguments of another assertion apart, and nothing else is: that  *)
(* the last walk prunes what it judged hides no other handler's assertion. *)
THEOREM HandlersCorrect == Spec => []HandlersReportExactly
<1>1. Spec => []HandlerReports
  BY InitHandlers, StepHandlers, TypesHold, PTL DEF Spec
<1>2. HandlerReports => HandlersReportExactly
  <2> SUFFICES ASSUME HandlerReports, phase = "done"
               PROVE  Reported({"handler"}) = IF IgnoreHTTPHandlers THEN {} ELSE HandlerToReport
    BY DEF HandlersReportExactly, HandlerToReport, HandlerJudged
  <2> QED
    BY DEF HandlerReports
<1> QED
  BY <1>1, <1>2, PTL
-----------------------------------------------------------------------------
(* The functions that a testing function reaches. *)
LEMMA ReachSelf ==
  ASSUME NEW fd \in TestingDecls
  PROVE  fd \in ReachableFrom(fd, Opaque)
BY DEF ReachableFrom

LEMMA ReachStep ==
  ASSUME file \in Files, NEW fd, NEW g \in ReachableFrom(fd, Opaque), NEW n \in Nodes(file),
         CalledDecl(n) # 0, Runs(g, n, Opaque)
  PROVE  CalledDecl(n) \in ReachableFrom(fd, Opaque)
<1>1. CalledDecl(n) \in TestingDecls
  BY CalleesAreTests
<1>2. ASSUME NEW S \in SUBSET TestingDecls, fd \in S, Callees(S, Opaque) \subseteq S
      PROVE  CalledDecl(n) \in S
  <2>1. g \in S
    BY <1>2 DEF ReachableFrom
  <2>2. CalledDecl(n) \in Callees(S, Opaque)
    BY <2>1 DEF Callees
  <2> QED
    BY <1>2, <2>2
<1> QED
  BY <1>1, <1>2 DEF ReachableFrom

LEMMA ReachTransitive ==
  ASSUME NEW fd, NEW g \in ReachableFrom(fd, Opaque), NEW h \in ReachableFrom(g, Opaque)
  PROVE  h \in ReachableFrom(fd, Opaque)
BY DEF ReachableFrom

LEMMA ReachLeast ==
  ASSUME NEW fd, NEW S \in SUBSET TestingDecls, fd \in S, Callees(S, Opaque) \subseteq S
  PROVE  ReachableFrom(fd, Opaque) \subseteq S
BY DEF ReachableFrom

LEMMA ExitsItself ==
  ASSUME file \in Files, NEW fd \in TestingDecls, NEW n \in Nodes(file), Runs(fd, n, Opaque),
         file.kind[n] \in {"require", "failnow"}
  PROVE  HoldsExit(fd)
BY ReachSelf DEF HoldsExit

LEMMA ExitsByCallee ==
  ASSUME NEW fd, NEW g \in ReachableFrom(fd, Opaque), HoldsExit(g)
  PROVE  HoldsExit(fd)
BY ReachTransitive DEF HoldsExit

(* A function whose running part is harmless does not exit, whatever the   *)
(* call graph: with the functions that do not exit it is a closed set.     *)
LEMMA HarmlessStays ==
  ASSUME file \in Files, NEW fd \in TestingDecls,
         \A n \in Nodes(file) : Runs(fd, n, Opaque) => Harmless(fd, n)
  PROVE  ~ HoldsExit(fd)
<1> DEFINE S == {fd} \cup { g \in TestingDecls : ~ HoldsExit(g) }
<1>1. ASSUME NEW n \in Nodes(file), CalledDecl(n) # 0, NEW g \in S, Runs(g, n, Opaque)
      PROVE  CalledDecl(n) \in S
  <2>1. CalledDecl(n) \in TestingDecls
    BY <1>1, CalleesAreTests
  <2>2. CASE g = fd
    BY <1>1, <2>1, <2>2 DEF Harmless
  <2>3. CASE g # fd
    <3>1. g \in TestingDecls /\ ~ HoldsExit(g)
      BY <2>3
    <3>2. CalledDecl(n) \in ReachableFrom(g, Opaque)
      BY <1>1, <3>1, ReachSelf, ReachStep
    <3>3. ~ HoldsExit(CalledDecl(n))
      BY <3>1, <3>2, ExitsByCallee
    <3> QED
      BY <2>1, <3>3
  <2> QED
    BY <2>2, <2>3
<1>2. ReachableFrom(fd, Opaque) \subseteq S
  <2>1. Callees(S, Opaque) \subseteq S
    BY <1>1 DEF Callees
  <2>2. S \in SUBSET TestingDecls /\ fd \in S
    OBVIOUS
  <2> HIDE DEF S
  <2> QED
    BY <2>1, <2>2, ReachLeast
<1>3. ASSUME NEW g \in ReachableFrom(fd, Opaque), NEW n \in Nodes(file),
             file.kind[n] \in {"require", "failnow"}, Runs(g, n, Opaque)
      PROVE  FALSE
  <2>1. g = fd \/ (g \in TestingDecls /\ ~ HoldsExit(g))
    BY <1>2
  <2> QED
    BY <1>3, <2>1, ExitsItself DEF Harmless
<1> QED
  BY <1>3 DEF HoldsExit

(* As long as the package stays, so does what is said of it. *)
LEMMA SamePackage ==
  ASSUME file' = file
  PROVE  /\ Nodes(file)' = Nodes(file) /\ TestingDecls' = TestingDecls
         /\ \A n : CalledDecl(n)' = CalledDecl(n)
         /\ \A fd, n : Runs(fd, n, Opaque)' <=> Runs(fd, n, Opaque)
         /\ \A fd : ReachableFrom(fd, Opaque)' = ReachableFrom(fd, Opaque)
         /\ \A fd : HoldsExit(fd)' <=> HoldsExit(fd)
         /\ \A x : FrameIsExact(x)' <=> FrameIsExact(x)
<1>1. /\ Nodes(file)' = Nodes(file) /\ TestingDecls' = TestingDecls
      /\ \A n : CalledDecl(n)' = CalledDecl(n)
      /\ \A fd, n : Runs(fd, n, Opaque)' <=> Runs(fd, n, Opaque)
  BY DEF TestingDecls, CalledDecl, IsTesting, Runs
<1>2. \A S : Callees(S, Opaque)' = Callees(S, Opaque)
  BY <1>1 DEF Callees
<1>3. \A fd : ReachableFrom(fd, Opaque)' = ReachableFrom(fd, Opaque)
  BY <1>1, <1>2 DEF ReachableFrom
<1>4. \A fd : HoldsExit(fd)' <=> HoldsExit(fd)
  BY <1>1, <1>3 DEF HoldsExit
<1>5. \A x : FrameIsExact(x)' <=> FrameIsExact(x)
  BY <1>1, <1>4 DEF FrameIsExact, InRunningPart, PassedHarmless, Harmless
<1> QED
  BY <1>1, <1>3, <1>4, <1>5
-----------------------------------------------------------------------------
(* Where an activation stands in the running part of its function. *)
LEMMA StandsInRunningPart ==
  ASSUME file \in Files, NEW fd \in TestingDecls, NEW m \in Nodes(file),
         InRunningPart(fd, m), m < After(file, fd)
  PROVE  m = fd \/ Runs(fd, m, Opaque)
<1>1. After(file, fd) \in Nat /\ m \in Nat
  BY FilesArePreorders, AfterEnds DEF TestingDecls
<1> QED
  BY <1>1 DEF InRunningPart

(* It goes into a node that lets what is below it run. *)
LEMMA GoesInto ==
  ASSUME file \in Files, NEW fd \in TestingDecls, NEW m \in Nodes(file),
         InRunningPart(fd, m), m < After(file, fd), PassedHarmless(fd, m),
         file.kind[m] \notin Opaque, Runs(fd, m, Opaque) => Harmless(fd, m)
  PROVE  InRunningPart(fd, m + 1) /\ PassedHarmless(fd, m + 1)
<1>1. /\ fd \in Nodes(file) /\ IsPreorder(file) /\ m \in Nat /\ After(file, fd) \in Nat
      /\ \A n \in Nodes(file) : n \in Nat
      /\ Len(file.kind) \in Nat
  BY FilesArePreorders, AfterEnds DEF TestingDecls
<1>2. m = fd \/ Runs(fd, m, Opaque)
  BY StandsInRunningPart
<1>3. InRunningPart(fd, m + 1)
  <2> SUFFICES ASSUME m + 1 # After(file, fd) PROVE m + 1 \in Nodes(file) /\ Runs(fd, m + 1, Opaque)
    BY DEF InRunningPart
  <2>1. m + 1 < After(file, fd) /\ After(file, fd) <= Len(file.kind) + 1
    <3>1. After(file, fd) \in fd + 1 .. Len(file.kind) + 1 /\ fd \in Nat
      BY <1>1, AfterEnds
    <3> QED
      BY <1>1, <3>1
  <2>2. m + 1 \in Nodes(file)
    BY <1>1, <2>1, FilesArePreorders DEF Nodes
  <2>3. fd < m + 1
    BY <1>1, <1>2 DEF Runs, Encloses
  <2>4. Encloses(file, fd, m + 1)
    BY <1>1, <2>1, <2>2, <2>3, AfterEnds
  <2>5. ASSUME NEW k \in Nodes(file), Encloses(file, fd, k), Encloses(file, k, m + 1)
        PROVE  file.kind[k] \notin Opaque
    <3>1. k = m \/ Encloses(file, k, m)
      BY <1>1, <2>2, <2>5, AroundNext
    <3>2. CASE k = m
      BY <3>2
    <3>3. CASE Encloses(file, k, m)
      <4>1. m # fd
        BY <1>1, <2>5, <3>3, EnclosesOrder
      <4> QED
        BY <1>2, <2>5, <3>3, <4>1 DEF Runs
    <3> QED
      BY <3>1, <3>2, <3>3
  <2> QED
    BY <2>2, <2>4, <2>5 DEF Runs
<1>4. PassedHarmless(fd, m + 1)
  <2> SUFFICES ASSUME NEW n \in Nodes(file), n < m + 1, Runs(fd, n, Opaque)
               PROVE  Harmless(fd, n)
    BY DEF PassedHarmless
  <2>1. n < m \/ n = m
    BY <1>1
  <2> QED
    BY <2>1 DEF PassedHarmless
<1> QED
  BY <1>3, <1>4

(* It goes past a node below which nothing runs. *)
LEMMA GoesPast ==
  ASSUME file \in Files, NEW fd \in TestingDecls, NEW m \in Nodes(file),
         Runs(fd, m, Opaque), PassedHarmless(fd, m), file.kind[m] \in Opaque, Harmless(fd, m)
  PROVE  InRunningPart(fd, After(file, m)) /\ PassedHarmless(fd, After(file, m))
<1> DEFINE a == After(file, m)
<1>1. /\ fd \in Nodes(file) /\ IsPreorder(file) /\ m \in Nat
      /\ \A n \in Nodes(file) : n \in Nat
  BY FilesArePreorders DEF TestingDecls
<1>2. /\ a \in Nat /\ m < a /\ (a = Len(file.kind) + 1 \/ a \in Nodes(file))
      /\ \A k \in Nodes(file) : Encloses(file, m, k) <=> m < k /\ k < a
  BY <1>1, AfterEnds
<1>3. /\ After(file, fd) \in Nat /\ After(file, fd) <= Len(file.kind) + 1
      /\ \A k \in Nodes(file) : Encloses(file, fd, k) <=> fd < k /\ k < After(file, fd)
      /\ Len(file.kind) \in Nat /\ fd \in Nat
  <2>1. Len(file.kind) \in Nat /\ fd \in Nat
    BY <1>1, NodesAreNumbers
  <2>2. /\ After(file, fd) \in fd + 1 .. Len(file.kind) + 1
        /\ \A k \in Nodes(file) : Encloses(file, fd, k) <=> fd < k /\ k < After(file, fd)
    BY <1>1, AfterEnds
  <2> QED
    BY <2>1, <2>2
<1>4. Encloses(file, fd, m) /\ fd < m
  BY DEF Runs, Encloses
<1>5. a <= After(file, fd)
  BY <1>1, <1>4, AfterNested
<1>6. InRunningPart(fd, a)
  <2> SUFFICES ASSUME a # After(file, fd) PROVE a \in Nodes(file) /\ Runs(fd, a, Opaque)
    BY DEF InRunningPart
  <2>1. a < After(file, fd) /\ a \in Nodes(file)
    BY <1>2, <1>3, <1>5
  <2>2. Encloses(file, fd, a)
    BY <1>1, <1>2, <1>3, <1>4, <2>1
  <2>3. ASSUME NEW k \in Nodes(file), Encloses(file, fd, k), Encloses(file, k, a)
        PROVE  file.kind[k] \notin Opaque
    <3>1. Encloses(file, k, m)
      BY <1>1, <2>1, <2>3, AroundAfter
    <3> QED
      BY <2>3, <3>1 DEF Runs
  <2> QED
    BY <2>1, <2>2, <2>3 DEF Runs
<1>7. PassedHarmless(fd, a)
  <2> SUFFICES ASSUME NEW n \in Nodes(file), n < a, Runs(fd, n, Opaque)
               PROVE  Harmless(fd, n)
    BY DEF PassedHarmless
  <2>1. ~ Encloses(file, m, n)
    BY <1>4 DEF Runs
  <2>2. n < m \/ n = m
    BY <1>1, <1>2, <2>1
  <2> QED
    BY <2>2 DEF PassedHarmless
<1> QED
  BY <1>6, <1>7

(* Once it has passed everything, or found an exit, its result is right.   *)
LEMMA InspectedIsRight ==
  ASSUME TypeInv, FramesLinked, FramesExact, Inspected
  PROVE  Top.result # "NoExit" <=> HoldsExit(Top.fd)
<1>1. /\ file \in Files /\ frames \in Seq(Frame) /\ Len(frames) \in 1 .. Len(frames)
      /\ Top \in Frame
  <2>1. file \in Files /\ frames \in Seq(Frame) /\ frames # <<>>
    BY DEF TypeInv, TypeOK, Frame, Inspected
  <2> QED
    BY <2>1 DEF Top
<1>2. Top.fd \in TestingDecls /\ FrameIsExact(Top)
  BY <1>1 DEF FramesLinked, FramesExact, Top
<1>3. ASSUME Top.result = "NoExit" PROVE ~ HoldsExit(Top.fd)
  <2>1. Top.at = After(file, Top.fd) /\ PassedHarmless(Top.fd, Top.at)
    BY <1>2, <1>3 DEF Inspected, FrameIsExact
  <2>2. \A n \in Nodes(file) : Runs(Top.fd, n, Opaque) => n < Top.at
    <3>1. IsPreorder(file) /\ Top.fd \in Nodes(file)
      BY <1>1, <1>2, FilesArePreorders DEF TestingDecls
    <3> QED
      BY <2>1, <3>1, AfterEnds DEF Runs
  <2> QED
    BY <1>1, <1>2, <2>1, <2>2, HarmlessStays DEF PassedHarmless
<1> QED
  BY <1>2, <1>3 DEF FrameIsExact

(* Taking over the verdict on a callee. *)
LEMMA TakesRightVerdict ==
  ASSUME file \in Files, NEW r \in Frame, r.fd \in TestingDecls, FrameIsExact(r),
         r.result = "NoExit", r.at \in Nodes(file), r.at < After(file, r.fd),
         CalledDecl(r.at) # 0, NEW v, v # "NoExit" <=> HoldsExit(CalledDecl(r.at))
  PROVE  FrameIsExact(TakeVerdict(r, v))
<1> DEFINE g == CalledDecl(r.at)
<1>1. file.kind[r.at] = "call" /\ r.at # r.fd
  BY CalleesAreTests DEF TestingDecls, IsTesting
<1>2. InRunningPart(r.fd, r.at) /\ PassedHarmless(r.fd, r.at)
  BY DEF FrameIsExact
<1>3. Runs(r.fd, r.at, Opaque)
  BY <1>1, <1>2, StandsInRunningPart
<1>4. CASE v # "NoExit"
  <2>1. g \in ReachableFrom(r.fd, Opaque) /\ HoldsExit(g)
    BY <1>3, <1>4, ReachSelf, ReachStep
  <2>2. HoldsExit(r.fd)
    BY <2>1, ExitsByCallee
  <2>3. TakeVerdict(r, v).fd = r.fd /\ TakeVerdict(r, v).result = v
    BY <1>4 DEF TakeVerdict, Past, Frame
  <2> QED
    BY <1>4, <2>2, <2>3 DEF FrameIsExact
<1>5. CASE v = "NoExit"
  <2>1. /\ TakeVerdict(r, v).fd = r.fd /\ TakeVerdict(r, v).result = "NoExit"
        /\ TakeVerdict(r, v).at = r.at + 1
    BY <1>5 DEF TakeVerdict, Into, Frame
  <2>2. Harmless(r.fd, r.at) /\ file.kind[r.at] \notin Opaque
    BY <1>1, <1>5 DEF Harmless, Opaque, Testify
  <2>3. InRunningPart(r.fd, r.at + 1) /\ PassedHarmless(r.fd, r.at + 1)
    BY <1>2, <2>2, GoesInto
  <2> QED
    BY <2>1, <2>3 DEF FrameIsExact
<1> QED
  BY <1>4, <1>5

(* What an activation does next keeps it exact, given a sound cache. *)
LEMMA InspectKeepsExact ==
  ASSUME TypeInv, FramesLinked, FramesExact, CacheIsSound,
         InspectGo \/ InspectAssertion \/ InspectOther \/ InspectCall,
         ~ (InspectCall /\ CalledDecl(Top.at) \notin DOMAIN processedFuncs)
  PROVE  \E r \in Frame : Continue(r) /\ r.fd = Top.fd /\ FrameIsExact(r)
<1>1. PICK r \in Frame : Continue(r) /\ r.fd = Top.fd
  BY InspectNext
<1>2. Inspecting
  BY DEF InspectGo, InspectAssertion, InspectOther, InspectCall
<1>3. /\ file \in Files /\ Top \in Frame /\ Top.at \in Nodes(file) /\ Top.result = "NoExit"
      /\ Top.at < After(file, Top.fd) /\ Top = frames[Len(frames)]
      /\ Len(frames) \in 1 .. Len(frames)
  BY <1>2, TopIsInside DEF TypeInv, Inspecting
<1>4. Top.fd \in TestingDecls /\ FrameIsExact(Top)
  BY <1>3 DEF FramesLinked, FramesExact
<1>5. InRunningPart(Top.fd, Top.at) /\ PassedHarmless(Top.fd, Top.at)
  BY <1>3, <1>4 DEF FrameIsExact
<1>6. file.kind[Top.at] \in Opaque \cup {"call"} => Runs(Top.fd, Top.at, Opaque)
  <2>1. file.kind[Top.fd] \notin Opaque \cup {"call"}
    BY <1>4 DEF TestingDecls, IsTesting, Opaque, Testify
  <2> QED
    BY <1>3, <1>4, <1>5, <2>1, StandsInRunningPart
<1>7. file.kind[Top.at] # "call" => CalledDecl(Top.at) = 0
  BY DEF CalledDecl
<1>8. ASSUME file.kind[Top.at] \in {"go", "assert"}
      PROVE  /\ InRunningPart(Top.fd, After(file, Top.at))
             /\ PassedHarmless(Top.fd, After(file, Top.at))
  <2>1. Harmless(Top.fd, Top.at) /\ file.kind[Top.at] \in Opaque
    BY <1>7, <1>8 DEF Harmless, Opaque, Testify
  <2> QED
    BY <1>3, <1>4, <1>5, <1>6, <2>1, GoesPast
<1>9. CASE InspectGo
  <2>1. Continue(Past(Top)) /\ file.kind[Top.at] \in {"go", "assert"}
    BY <1>9 DEF InspectGo
  <2>2. /\ Past(Top) \in Frame /\ Past(Top).fd = Top.fd /\ Past(Top).result = "NoExit"
        /\ Past(Top).at = After(file, Top.at)
    <3>1. "NoExit" \in Verdicts
      BY DEF Verdicts
    <3>2. Past(Top) \in Frame
      BY <1>3, <3>1, VerdictTypes
    <3> QED
      BY <1>3, <3>2 DEF Past, Frame
  <2>3. FrameIsExact(Past(Top))
    BY <1>8, <2>1, <2>2 DEF FrameIsExact
  <2> QED
    BY <2>1, <2>2, <2>3
<1>10. CASE InspectAssertion
  <2> DEFINE v == checkCall(Top.at)
             p == [Past(Top) EXCEPT !.result = v]
  <2>1. Continue(p) /\ file.kind[Top.at] \in Testify
    BY <1>10 DEF InspectAssertion
  <2>2. v \in Verdicts /\ (v = "NoExit" <=> file.kind[Top.at] = "assert")
    BY <2>1 DEF checkCall, Testify, Verdicts
  <2>3. p \in Frame /\ p.fd = Top.fd /\ p.result = v /\ p.at = After(file, Top.at)
    <3>1. Past(Top) \in Frame
      BY <1>3, <2>2, VerdictTypes
    <3> QED
      BY <1>3, <2>2, <3>1 DEF Past, Frame
  <2> HIDE DEF p
  <2>4. CASE v = "NoExit"
    BY <1>8, <2>1, <2>2, <2>3, <2>4 DEF FrameIsExact
  <2>5. CASE v # "NoExit"
    <3>1. HoldsExit(Top.fd)
      BY <1>3, <1>4, <1>6, <2>1, <2>2, <2>5, ExitsItself DEF Testify, Opaque
    <3> QED
      BY <2>1, <2>3, <2>5, <3>1 DEF FrameIsExact
  <2> QED
    BY <2>4, <2>5
<1>11. CASE InspectOther
  <2>1. /\ Continue(Into(Top)) /\ file.kind[Top.at] \notin Opaque
        /\ CalledDecl(Top.at) \in {0, Top.fd}
    BY <1>11 DEF InspectOther, Passable, Opaque
  <2>2. Harmless(Top.fd, Top.at)
    BY <2>1 DEF Harmless, Opaque, Testify
  <2>3. /\ Into(Top) \in Frame /\ Into(Top).fd = Top.fd /\ Into(Top).result = "NoExit"
        /\ Into(Top).at = Top.at + 1
    <3>1. "NoExit" \in Verdicts
      BY DEF Verdicts
    <3>2. Into(Top) \in Frame
      BY <1>3, <3>1, VerdictTypes
    <3> QED
      BY <1>3, <3>2 DEF Into, Frame
  <2>4. InRunningPart(Top.fd, Top.at + 1) /\ PassedHarmless(Top.fd, Top.at + 1)
    BY <1>3, <1>4, <1>5, <2>1, <2>2, GoesInto
  <2> QED
    BY <2>1, <2>3, <2>4 DEF FrameIsExact
<1>12. CASE InspectCall
  <2> DEFINE g == CalledDecl(Top.at)
             v == processedFuncs[g]
  <2>1. /\ g \in DOMAIN processedFuncs /\ g # 0
        /\ Continue(TakeVerdict(Top, v))
    BY <1>12 DEF InspectCall, Passable
  <2>2. v \in Verdicts /\ v # "NoExit" /\ HoldsExit(g)
    BY <2>1 DEF CacheIsSound, TypeInv, TypeOK
  <2>3. FrameIsExact(TakeVerdict(Top, v))
    BY <1>3, <1>4, <2>1, <2>2, TakesRightVerdict
  <2>4. TakeVerdict(Top, v) \in Frame
    BY <1>3, <2>2, VerdictTypes
  <2>5. TakeVerdict(Top, v).fd = Top.fd
    BY <1>3, <2>2 DEF TakeVerdict, Past, Frame
  <2> QED
    BY <2>1, <2>3, <2>4, <2>5
<1> QED
  BY <1>9, <1>10, <1>11, <1>12

(* A new activation has passed nothing. *)
LEMMA ActivationIsExact ==
  ASSUME file \in Files, NEW g \in TestingDecls
  PROVE  FrameIsExact(Activation(g))
<1>1. \A n \in Nodes(file) : Encloses(file, g, n) => ~ (n < g)
  BY FilesArePreorders DEF Encloses, TestingDecls
<1> QED
  BY <1>1 DEF FrameIsExact, Activation, InRunningPart, PassedHarmless, Runs

(* Only an exiting assertion of the function itself is cached. *)
LEMMA CacheStaysSound ==
  ASSUME TypeInv, FramesLinked, FramesExact, CacheIsSound, InspectStep
  PROVE  CacheIsSound'
<1>1. file' = file
  BY InspectMoves
<1>2. \A fd : HoldsExit(fd)' <=> HoldsExit(fd)
  BY <1>1, SamePackage
<1>3. CASE processedFuncs' = processedFuncs
  BY <1>2, <1>3 DEF CacheIsSound
<1>4. CASE processedFuncs' # processedFuncs
  <2>1. /\ InspectAssertion /\ Inspecting /\ file.kind[Top.at] \in Testify
        /\ checkCall(Top.at) # "NoExit"
        /\ processedFuncs' = [fd \in DOMAIN processedFuncs \cup {Top.fd} |->
             IF fd = Top.fd THEN checkCall(Top.at) ELSE processedFuncs[fd]]
    BY <1>4 DEF InspectStep, InspectGo, InspectAssertion, InspectOther, InspectCall, ReturnToCaller
  <2>2. /\ file \in Files /\ Top.at \in Nodes(file) /\ Top = frames[Len(frames)]
        /\ Len(frames) \in 1 .. Len(frames) /\ Top.at < After(file, Top.fd)
        /\ Top.result = "NoExit"
    BY <2>1, TopIsInside DEF TypeInv, Inspecting
  <2>3. Top.fd \in TestingDecls /\ InRunningPart(Top.fd, Top.at)
    BY <2>2 DEF FramesLinked, FramesExact, FrameIsExact
  <2>4. Runs(Top.fd, Top.at, Opaque)
    <3>1. Top.at # Top.fd
      BY <2>1, <2>3 DEF TestingDecls, IsTesting, Testify
    <3> QED
      BY <2>2, <2>3, <3>1, StandsInRunningPart
  <2>5. HoldsExit(Top.fd)
    <3>1. file.kind[Top.at] \in {"require", "failnow"}
      BY <2>1 DEF checkCall, Testify
    <3> QED
      BY <2>2, <2>3, <2>4, <3>1, ExitsItself
  <2> QED
    BY <1>2, <2>1, <2>5 DEF CacheIsSound
<1> QED
  BY <1>3, <1>4
-----------------------------------------------------------------------------
(* The activations stay linked and exact when those after the k-th return  *)
(* and the k-th continues.                                                 *)
LEMMA ContinueKeepsFrames ==
  ASSUME FramesLinked, FramesExact, file' = file, Len(frames) \in Nat,
         NEW k, k \in Nat, k # 0, k <= Len(frames), Len(frames') = k,
         \A i \in 1 .. k : i < k => frames'[i] = frames[i],
         frames'[k].fd = frames[k].fd, FrameIsExact(frames'[k])
  PROVE  FramesLinked' /\ FramesExact'
<1>1. \A i \in 1 .. k : i \in 1 .. Len(frames)
  OBVIOUS
<1>2. /\ Nodes(file)' = Nodes(file) /\ TestingDecls' = TestingDecls
      /\ \A n : CalledDecl(n)' = CalledDecl(n)
      /\ \A fd, n : Runs(fd, n, Opaque)' <=> Runs(fd, n, Opaque)
      /\ \A fd : ReachableFrom(fd, Opaque)' = ReachableFrom(fd, Opaque)
      /\ \A x : FrameIsExact(x)' <=> FrameIsExact(x)
  BY SamePackage
<1>3. \A i \in 1 .. k : frames'[i].fd = frames[i].fd
  OBVIOUS
<1>4. ASSUME NEW i \in 1 .. k, i < k
      PROVE  /\ frames'[i] = frames[i] /\ frames'[i + 1].fd = frames[i + 1].fd
             /\ CallsNext(i)
  <2>1. i + 1 \in 1 .. k
    BY <1>1, <1>4
  <2> QED
    BY <1>1, <1>3, <1>4, <2>1 DEF FramesLinked
<1>5. FramesLinked'
  <2>1. \A i \in 1 .. k : i < k => CallsNext(i)'
    BY <1>2, <1>4 DEF CallsNext
  <2>2. \A i \in 1 .. k : \A j \in i .. k : j \in 1 .. k /\ j \in i .. Len(frames)
    OBVIOUS
  <2>3. \A i \in 1 .. k :
          /\ frames'[i].fd \in TestingDecls
          /\ \A j \in i .. k : frames'[j].fd \in ReachableFrom(frames'[i].fd, Opaque)
    BY <1>1, <1>3, <2>2 DEF FramesLinked
  <2> QED
    BY <1>1, <1>2, <2>1, <2>3 DEF FramesLinked
<1>6. FramesExact'
  <2>1. \A i \in 1 .. k : FrameIsExact(frames'[i])
    <3> SUFFICES ASSUME NEW i \in 1 .. k PROVE FrameIsExact(frames'[i])
      OBVIOUS
    <3>1. CASE i = k
      BY <3>1
    <3>2. CASE i # k
      BY <1>1, <3>2 DEF FramesExact
    <3> QED
      BY <3>1, <3>2
  <2> QED
    BY <1>2, <2>1 DEF FramesExact
<1> QED
  BY <1>5, <1>6

(* and when a new one is called. *)
LEMMA CallKeepsFrames ==
  ASSUME TypeInv, FramesLinked, FramesExact, InspectCall,
         CalledDecl(Top.at) \notin DOMAIN processedFuncs
  PROVE  FramesLinked' /\ FramesExact'
<1> DEFINE k == Len(frames)
           g == CalledDecl(Top.at)
<1>1. /\ k \in Nat /\ k # 0 /\ Len(frames') = k + 1 /\ frames'[k + 1] = Activation(g)
      /\ \A i \in 1 .. k : frames'[i] = frames[i]
      /\ g # 0 /\ g # Top.fd
  BY CallShape
<1>2. /\ Nodes(file)' = Nodes(file) /\ TestingDecls' = TestingDecls
      /\ \A n : CalledDecl(n)' = CalledDecl(n)
      /\ \A fd, n : Runs(fd, n, Opaque)' <=> Runs(fd, n, Opaque)
      /\ \A fd : ReachableFrom(fd, Opaque)' = ReachableFrom(fd, Opaque)
      /\ \A x : FrameIsExact(x)' <=> FrameIsExact(x)
  BY SamePackage DEF InspectCall, FrameStep
<1>3. /\ file \in Files /\ Top.at \in Nodes(file) /\ Top = frames[k] /\ Top.result = "NoExit"
      /\ Top.at < After(file, Top.fd) /\ file.kind[Top.at] = "call"
  BY TopIsInside DEF TypeInv, InspectCall, Inspecting
<1>4. g \in TestingDecls /\ Top.fd \in TestingDecls /\ InRunningPart(Top.fd, Top.at)
  <2>1. k \in 1 .. k
    BY <1>1
  <2> QED
    BY <1>1, <1>3, <2>1, CalleesAreTests DEF FramesLinked, FramesExact, FrameIsExact
<1>5. Runs(Top.fd, Top.at, Opaque)
  <2>1. Top.at # Top.fd
    BY <1>3, <1>4 DEF TestingDecls, IsTesting
  <2> QED
    BY <1>3, <1>4, <2>1, StandsInRunningPart
<1>6. \A i \in 1 .. k : g \in ReachableFrom(frames[i].fd, Opaque)
  <2> SUFFICES ASSUME NEW i \in 1 .. k PROVE g \in ReachableFrom(frames[i].fd, Opaque)
    OBVIOUS
  <2>1. k \in i .. k
    BY <1>1
  <2>2. Top.fd \in ReachableFrom(frames[i].fd, Opaque)
    BY <1>3, <2>1 DEF FramesLinked
  <2> QED
    BY <1>1, <1>3, <1>5, <2>2, ReachStep
<1>7. g \in ReachableFrom(g, Opaque) /\ FrameIsExact(Activation(g)) /\ Activation(g).fd = g
  BY <1>3, <1>4, ReachSelf, ActivationIsExact DEF Activation
<1> HIDE DEF k, g
<1>8. \A i \in 1 .. k + 1 : i = k + 1 \/ i \in 1 .. k
  BY <1>1
<1>9. \A i \in 1 .. k : /\ frames[i].fd \in TestingDecls
                        /\ i < k => CallsNext(i)
                        /\ \A j \in i .. k : frames[j].fd \in ReachableFrom(frames[i].fd, Opaque)
  BY DEF FramesLinked, k
<1>10. FramesLinked'
  <2>1. ASSUME NEW i \in 1 .. k + 1, i < k + 1 PROVE CallsNext(i)'
    <3>1. i \in 1 .. k /\ frames'[i] = frames[i]
      BY <1>1, <1>8, <2>1
    <3>2. CASE i < k
      <4>1. i + 1 \in 1 .. k
        BY <1>1, <3>1, <3>2
      <4>2. frames'[i + 1] = frames[i + 1] /\ CallsNext(i)
        BY <1>1, <1>9, <3>1, <3>2, <4>1
      <4> QED
        BY <1>2, <3>1, <4>2 DEF CallsNext
    <3>3. CASE i = k
      BY <1>1, <1>2, <1>3, <1>5, <1>7, <3>1, <3>3 DEF CallsNext, g
    <3> QED
      BY <1>1, <3>1, <3>2, <3>3
  <2>2. ASSUME NEW i \in 1 .. k + 1
        PROVE  /\ frames'[i].fd \in TestingDecls
               /\ \A j \in i .. k + 1 : frames'[j].fd \in ReachableFrom(frames'[i].fd, Opaque)
    <3>1. \A j \in i .. k + 1 : j = k + 1 \/ (j \in i .. k /\ j \in 1 .. k /\ i \in 1 .. k)
      BY <1>1
    <3> QED
      BY <1>1, <1>4, <1>6, <1>7, <1>8, <1>9, <3>1
  <2> QED
    BY <1>1, <1>2, <2>1, <2>2 DEF FramesLinked
<1>11. FramesExact'
  <2>1. \A i \in 1 .. k + 1 : FrameIsExact(frames'[i])
    BY <1>1, <1>7, <1>8 DEF FramesExact, k
  <2> QED
    BY <1>1, <1>2, <2>1 DEF FramesExact
<1> QED
  BY <1>10, <1>11

LEMMA InspectKeepsFrames ==
  ASSUME TypeInv, FramesLinked, FramesExact, CacheIsSound, InspectStep
  PROVE  FramesLinked' /\ FramesExact'
<1>1. file' = file
  BY InspectMoves
<1>2. CASE InspectCall /\ CalledDecl(Top.at) \notin DOMAIN processedFuncs
  BY <1>2, CallKeepsFrames
<1>3. CASE ~ ReturnToCaller /\ ~ (InspectCall /\ CalledDecl(Top.at) \notin DOMAIN processedFuncs)
  <2> DEFINE k == Len(frames)
  <2>1. PICK r \in Frame : Continue(r) /\ r.fd = Top.fd /\ FrameIsExact(r)
    BY <1>3, InspectKeepsExact DEF InspectStep
  <2>2. Inspecting
    BY <1>3 DEF InspectStep, InspectGo, InspectAssertion, InspectOther, InspectCall
  <2>3. /\ k \in Nat /\ k # 0 /\ Len(frames') = k /\ frames'[k] = r /\ Top = frames[k]
        /\ \A i \in 1 .. k : i < k => frames'[i] = frames[i]
    BY <2>1, <2>2, ContinueShape DEF Top
  <2>4. k <= Len(frames)
    BY <2>3
  <2> QED
    BY <1>1, <2>1, <2>3, <2>4, ContinueKeepsFrames
<1>4. CASE ReturnToCaller
  <2> DEFINE k == Len(frames) - 1
             r == frames[k]
  <2>1. /\ k \in Nat /\ k # 0 /\ Len(frames) = k + 1 /\ Len(frames') = k
        /\ r \in Frame /\ r.at \in Nodes(file)
        /\ frames[k + 1] = Top
        /\ frames'[k] = TakeVerdict(r, Top.result)
        /\ \A i \in 1 .. k : i < k => frames'[i] = frames[i]
    BY <1>4, ReturnShape
  <2>2. k \in 1 .. Len(frames) /\ k < Len(frames)
    BY <2>1
  <2>3. r.fd \in TestingDecls /\ CallsNext(k) /\ FrameIsExact(r)
    BY <2>2 DEF FramesLinked, FramesExact
  <2>4. Top.result # "NoExit" <=> HoldsExit(Top.fd)
    BY <1>4, InspectedIsRight DEF ReturnToCaller
  <2>5. /\ r.result = "NoExit" /\ CalledDecl(r.at) = Top.fd /\ CalledDecl(r.at) # 0
        /\ Runs(r.fd, r.at, Opaque)
    <3>1. 0 \notin Nodes(file)
      BY FilesArePreorders DEF TypeInv
    <3>2. k + 1 \in 1 .. Len(frames)
      BY <2>1
    <3>3. Top.fd \in Nodes(file)
      BY <2>1, <3>2 DEF FramesLinked, TestingDecls
    <3> QED
      BY <2>1, <2>3, <3>1, <3>3 DEF CallsNext
  <2>6. r.at < After(file, r.fd) /\ file \in Files
    <3>1. file \in Files /\ IsPreorder(file) /\ r.fd \in Nodes(file)
      BY <2>3, FilesArePreorders DEF TypeInv, TestingDecls
    <3> QED
      BY <2>1, <2>5, <3>1, AfterEnds DEF Runs
  <2>7. FrameIsExact(frames'[k])
    BY <2>1, <2>3, <2>4, <2>5, <2>6, TakesRightVerdict
  <2>8. frames'[k].fd = frames[k].fd
    BY <2>1 DEF TakeVerdict, Past, Into, Frame
  <2>9. k <= Len(frames) /\ Len(frames) \in Nat
    BY <2>1
  <2> HIDE DEF k, r
  <2> QED
    BY <1>1, <2>1, <2>7, <2>8, <2>9, ContinueKeepsFrames
<1> QED
  BY <1>2, <1>3, <1>4

(* What holds of checkFunc's activations and of its cache. *)
VerdictInv == FramesLinked /\ FramesExact /\ CacheIsSound

LEMMA StepVerdicts ==
  TypeInv /\ FramesInWalk /\ VerdictInv /\ [Next]_vars => VerdictInv'
<1> SUFFICES ASSUME TypeInv, FramesInWalk, VerdictInv, [Next]_vars PROVE VerdictInv'
  OBVIOUS
<1>1. FramesLinked /\ FramesExact /\ CacheIsSound
  BY DEF VerdictInv
<1>2. CASE InspectStep
  BY <1>1, <1>2, InspectKeepsFrames, CacheStaysSound DEF VerdictInv
<1>3. CASE ~ InspectStep
  <2>1. file' = file /\ processedFuncs' = processedFuncs
    BY <1>3, WalkStepMoves DEF Next, WalkStep, InspectStep, ReturnToWalk, EndOfWalk, HandlerWalk,
       EndOfHandlers, vars
  <2>2. CacheIsSound'
    BY <1>1, <2>1, SamePackage DEF CacheIsSound
  <2>3. CASE frames' = <<>>
    <3>1. \A i : ~ (i \in 1 .. Len(frames'))
      BY <2>3
    <3> QED
      BY <2>2, <3>1 DEF VerdictInv, FramesLinked, FramesExact
  <2>4. CASE frames' = frames /\ frames' # <<>>
    <3>1. FramesLinked'
      BY <1>1, <2>1, <2>4, SamePackage DEF FramesLinked, CallsNext
    <3>2. FramesExact'
      BY <1>1, <2>1, <2>4, SamePackage DEF FramesExact
    <3> QED
      BY <2>2, <3>1, <3>2 DEF VerdictInv
  <2>5. CASE frames' # frames /\ frames' # <<>>
    <3> DEFINE g == CalledDecl(at)
    <3>1. WalkStep /\ frames' = <<Activation(g)>> /\ at \in Nodes(file) /\ g # 0
      <4>1. WalkStep
        BY <1>3, <2>5 DEF Next, WalkStep, InspectStep, ReturnToWalk, EndOfWalk, HandlerWalk,
           EndOfHandlers, vars
      <4>2. CheckCallee
        BY <2>5, <4>1 DEF WalkStep, EnterStatus, LeaveStatus, SkipFuncDecl, Unfiltered, PassCall,
           CheckAssertion, PassUnknownCall
      <4> QED
        BY <2>5, <4>1, <4>2, WalkStepMoves DEF CheckCallee
    <3>2. file \in Files /\ g \in TestingDecls
      BY <3>1, CalleesAreTests DEF TypeInv
    <3>3. FrameIsExact(Activation(g)) /\ g \in ReachableFrom(g, Opaque) /\ Activation(g).fd = g
      BY <3>2, ActivationIsExact, ReachSelf DEF Activation
    <3> HIDE DEF g
    <3>4. /\ \A i \in 1 .. Len(frames') : frames'[i] = Activation(g) /\ ~ (i < Len(frames'))
          /\ \A i \in 1 .. Len(frames') : \A j \in i .. Len(frames') : frames'[j] = Activation(g)
      BY <3>1
    <3>5. FramesLinked'
      BY <2>1, <3>2, <3>3, <3>4, SamePackage DEF FramesLinked
    <3>6. FramesExact'
      BY <2>1, <3>3, <3>4, SamePackage DEF FramesExact
    <3> QED
      BY <2>2, <3>5, <3>6 DEF VerdictInv
  <2> QED
    BY <2>3, <2>4, <2>5
<1> QED
  BY <1>2, <1>3

LEMMA VerdictsHold == Spec => [](TypeInv /\ FramesInWalk /\ VerdictInv)
<1>1. Init => VerdictInv
  <2> SUFFICES ASSUME Init PROVE VerdictInv
    OBVIOUS
  <2>1. frames = <<>> /\ DOMAIN processedFuncs = {}
    BY DEF Init
  <2>2. \A i : ~ (i \in 1 .. Len(frames))
    BY <2>1
  <2> QED
    BY <2>1, <2>2 DEF VerdictInv, FramesLinked, FramesExact, CacheIsSound
<1> QED
  BY <1>1, InitTypes, StepTypes, StepVerdicts, PTL DEF Spec

(* Whatever the call graph, with cycles too, and whatever was asked        *)
(* before: checkFunc answers "exits" exactly for the functions with an     *)
(* exiting assertion in them or in a testing function they call, `go`      *)
(* statements apart and subtests included, and its cache holds no other    *)
(* answer.                                                                 *)
THEOREM VerdictsCorrect == Spec => []VerdictsAreExact
<1>1. TypeInv /\ VerdictInv => VerdictsAreExact
  BY InspectedIsRight DEF VerdictInv, VerdictsAreExact, VerdictIsExact
<1> QED
  BY <1>1, VerdictsHold, PTL

(* checkFunc is only ever entered again for a function it is busy with     *)
(* when two testing functions reach each other.                            *)
THEOREM ReentryNeedsMutual == Spec => []ReentryIsMutual
<1>1. TypeInv /\ VerdictInv => ReentryIsMutual
  <2> SUFFICES ASSUME TypeInv, FramesLinked, NEW i \in 1 .. Len(frames), NEW j \in 1 .. Len(frames),
                      i # j, frames[i].fd = frames[j].fd
               PROVE  MutualRecursion
    BY DEF VerdictInv, ReentryIsMutual, NoReentry
  <2>1. Len(frames) \in Nat
    BY DEF TypeInv, TypeOK
  <2>2. ASSUME NEW a \in 1 .. Len(frames), NEW b \in 1 .. Len(frames), a < b,
               frames[a].fd = frames[b].fd
        PROVE  MutualRecursion
    <3>1. a + 1 \in 1 .. Len(frames) /\ a + 1 \in a .. Len(frames) /\ b \in a + 1 .. Len(frames)
          /\ a < Len(frames)
      BY <2>1, <2>2
    <3> DEFINE g == frames[a].fd
               h == frames[a + 1].fd
    <3>2. /\ g \in TestingDecls /\ h \in TestingDecls /\ h # g
          /\ h \in ReachableFrom(g, Opaque) /\ g \in ReachableFrom(h, Opaque)
      BY <2>2, <3>1 DEF FramesLinked, CallsNext
    <3> QED
      BY <3>2 DEF MutualRecursion, TestingDecls
  <2> QED
    BY <2>1, <2>2
<1> QED
  BY <1>1, VerdictsHold, PTL
-----------------------------------------------------------------------------
(* The walk's own reports. *)
LEMMA SameRules ==
  ASSUME file' = file
  PROVE  /\ \A n : OutsideTest(n)' <=> OutsideTest(n)
         /\ \A n : Reached(n)' <=> Reached(n)
         /\ ToReport' = ToReport
<1>1. \A n : OutsideTest(n)' <=> OutsideTest(n)
  BY DEF OutsideTest
<1>2. \A n : Reached(n)' <=> Reached(n)
  BY <1>1 DEF Reached
<1>3. \A n : Exits(n)' <=> Exits(n)
  BY SamePackage DEF Exits
<1> QED
  BY <1>1, <1>2, <1>3 DEF ToReport

(* What the stack says of a call is what the tree says. *)
LEMMA PermittedIsInside ==
  ASSUME TypeInv, StackMirrorsContext, phase = "walk", at \in Nodes(file), push
  PROVE  Permitted <=> ~ OutsideTest(at)
<1> DEFINE s == inGoroutineRunningTestFunc
           O == Around(at)
<1>1. /\ file \in Files /\ s \in Seq(BOOLEAN) /\ Open = O /\ O \in SUBSET Nodes(file)
      /\ Mirrors(s, O) /\ \A n \in O : n < at
  BY OpenIsAround, OpenIsInTree DEF TypeInv, TypeOK, StackMirrorsContext, Mirrors
<1>2. s = <<>> <=> O = {}
  BY <1>1, MirrorsLast
<1>3. OutsideTest(at) <=> \E g \in O : file.kind[g] = "go" /\ \A m \in O : m <= g
  BY DEF OutsideTest, Around, ChangesStatus
<1>4. CASE O = {}
  BY <1>2, <1>3, <1>4 DEF Permitted
<1>5. CASE O # {}
  <2>1. \A n \in Nodes(file) : n \in Nat
    BY <1>1, FilesArePreorders
  <2>2. O \in SUBSET Nat /\ at \in Nat /\ \A n \in O : n <= at
    BY <1>1, <2>1
  <2> HIDE DEF O
  <2>3. PICK x \in O : \A y \in O : y <= x
    BY <1>5, <2>2, GreatestNumber
  <2>4. s[Len(s)] = Status(file.kind[x])
    BY <1>1, <2>3, MirrorsLast
  <2>5. Status(file.kind[x]) <=> file.kind[x] # "go"
    BY <2>3 DEF O, Around, Status, ChangesStatus
  <2>6. Permitted <=> s[Len(s)]
    BY <1>2, <1>5 DEF Permitted, Last
  <2>7. OutsideTest(at) <=> file.kind[x] = "go"
    <3>1. ASSUME NEW g \in O, \A m \in O : m <= g PROVE g = x
      BY <2>2, <2>3, <3>1
    <3> QED
      BY <1>3, <2>3, <3>1
  <2> QED
    BY <2>4, <2>5, <2>6, <2>7
<1> QED
  BY <1>4, <1>5

LEMMA SeenByDescend ==
  ASSUME file \in Files, at \in Nodes(file), Descend, push, file' = file
  PROVE  NotSeen = at /\ NotSeen' = at + 1
BY DescendMoves DEF NotSeen

LEMMA SeenByLeave ==
  ASSUME file \in Files, at \in Nodes(file), Leave, file' = file
  PROVE  NotSeen' = After(file, at)
BY LeaveMoves DEF NotSeen

LEMMA DescendReaches ==
  ASSUME file \in Files, at \in Nodes(file), Descend, push, file' = file, Reached(at),
         file.kind[at] \notin {"plain", "handler"},
         ~ (file.kind[at] \in Testify /\ OutsideTest(at))
  PROVE  at' \in Nodes(file) /\ Reached(at')
<1>1. /\ IsPreorder(file) /\ at' \in Nodes(file)
      /\ at' = at \/ at' = at + 1
  BY DescendMoves, FilesArePreorders
<1>2. CASE at' = at
  BY <1>1, <1>2
<1>3. CASE at' = at + 1
  <2>1. \A m \in Nodes(file) : Encloses(file, m, at + 1) => m = at \/ Encloses(file, m, at)
    BY <1>1, <1>3, AroundNext
  <2>2. Reached(at + 1)
    BY <2>1 DEF Reached
  <2> QED
    BY <1>1, <1>3, <2>2
<1> QED
  BY <1>1, <1>2, <1>3

LEMMA LeaveReaches ==
  ASSUME file \in Files, at \in Nodes(file), Leave, file' = file, Reached(at)
  PROVE  /\ at' \in Nodes(file) => Reached(at')
         /\ at' \notin Nodes(file) => push'
<1>1. /\ IsPreorder(file) /\ push' \in BOOLEAN
      /\ ~ push' => file.up[at] # 0 /\ at' = file.up[at]
      /\ push' => at' = After(file, at)
      /\ at' \notin Nodes(file) => push'
  BY LeaveMoves, FilesArePreorders
<1>2. ASSUME at' \in Nodes(file), NEW m \in Nodes(file), Encloses(file, m, at')
      PROVE  Encloses(file, m, at)
  <2>1. CASE push'
    BY <1>1, <1>2, <2>1, AroundAfter
  <2>2. CASE ~ push'
    BY <1>1, <1>2, <2>2, EnclosesByParent
  <2> QED
    BY <2>1, <2>2
<1> QED
  BY <1>1, <1>2 DEF Reached

(* The events of the walk, with what they report: nothing, and then what   *)
(* they pass need not be reported; or the node they are at.                *)
Passes(m) == \A n \in ToReport : n < NotSeen <=> n < m
ReportsAt(m) == at \in ToReport /\ \A n \in ToReport : n < NotSeen \/ n = at <=> n < m

LEMMA WalkGoesOn ==
  ASSUME TypeInv, WalkReports, phase = "walk", phase' = "walk", file' = file,
         NotSeen \in Nat, NEW m \in Nat, NotSeen' = m, NotSeen <= m,
         \/ diagnostics' = diagnostics /\ Passes(m)
         \/ (\E a \in {"goroutine", "callee"} : Diagnose(at, a)) /\ ReportsAt(m)
            /\ NotSeen = at /\ at < m
  PROVE  WalkReports'
<1> DEFINE k == Len(diagnostics)
<1>1. /\ TypeOK /\ k \in Nat /\ ToReport' = ToReport /\ diagnostics \in Seq(Diagnoses)
      /\ \A n \in Nodes(file) : n \in Nat
  BY SameRules, FilesArePreorders DEF TypeInv, TypeOK, Diagnoses
<1>2. /\ Reported({"goroutine", "callee"}) = { n \in ToReport : n < NotSeen }
      /\ \A i, j \in 1 .. k :
           i < j /\ diagnostics[j].about # "handler" => diagnostics[i].node < diagnostics[j].node
      /\ \A i \in 1 .. k : /\ diagnostics[i].about # "handler" /\ diagnostics[i].node < NotSeen
                           /\ diagnostics[i].node \in Nat
  <2>1. \A i \in 1 .. k : diagnostics[i] \in Diagnoses
    BY <1>1
  <2>2. \A i \in 1 .. k : diagnostics[i].node \in Nat
    BY <1>1, <2>1 DEF Diagnoses
  <2> QED
    BY <2>2 DEF WalkReports
<1>3. CASE diagnostics' = diagnostics /\ Passes(m)
  <2>1. Reported({"goroutine", "callee"})' = { n \in ToReport : n < m }
    BY <1>2, <1>3, ReportedSame DEF Passes
  <2>2. \A i \in 1 .. k : diagnostics[i].node < m
    BY <1>2
  <2> QED
    BY <1>1, <1>2, <1>3, <2>1, <2>2 DEF WalkReports
<1>4. CASE /\ \E a \in {"goroutine", "callee"} : Diagnose(at, a)
           /\ ReportsAt(m) /\ NotSeen = at /\ at < m
  <2>1. PICK a \in {"goroutine", "callee"} : Diagnose(at, a)
    BY <1>4
  <2> DEFINE d == Diagnostic(at, a)
  <2>2. /\ Len(diagnostics') = k + 1 /\ diagnostics'[k + 1] = d
        /\ \A i \in 1 .. k : diagnostics'[i] = diagnostics[i]
    BY <1>1, <2>1 DEF Diagnose
  <2>3. d.node = at /\ d.about # "handler"
    BY <2>1 DEF Diagnostic
  <2> HIDE DEF d, k
  <2>4. Reported({"goroutine", "callee"})' = { n \in ToReport : n < m }
    <3>1. Reported({"goroutine", "callee"})' = Reported({"goroutine", "callee"}) \cup {at}
      BY <1>1, <2>1, ReportedMore
    <3> QED
      BY <1>2, <1>4, <3>1 DEF ReportsAt
  <2>5. \A i \in 1 .. k + 1 : i \in 1 .. k \/ i = k + 1
    BY <1>1
  <2>6. \A i \in 1 .. k + 1 : diagnostics'[i].about # "handler" /\ diagnostics'[i].node < m
    BY <1>2, <1>4, <2>2, <2>3, <2>5
  <2>7. ASSUME NEW i \in 1 .. k + 1, NEW j \in 1 .. k + 1, i < j
        PROVE  diagnostics'[i].node < diagnostics'[j].node
    <3>1. i \in 1 .. k
      BY <1>1, <2>7
    <3>2. CASE j = k + 1
      BY <1>2, <1>4, <2>2, <2>3, <3>1, <3>2
    <3>3. CASE j # k + 1
      BY <1>2, <2>2, <2>5, <2>7, <3>1, <3>3
    <3> QED
      BY <3>2, <3>3
  <2> QED
    BY <1>1, <2>2, <2>4, <2>6, <2>7 DEF WalkReports
<1> QED
  BY <1>3, <1>4

(* What the walk needs to know of the node it is at. *)
LEMMA AtEvent ==
  ASSUME TypeInv, phase = "walk", at \in Nodes(file)
  PROVE  /\ file \in Files /\ IsPreorder(file) /\ at \in Nat /\ NotSeen \in Nat
         /\ at + 1 \in Nat /\ After(file, at) \in Nat /\ at < After(file, at)
         /\ push => NotSeen = at
         /\ ~ push => NotSeen = After(file, at)
         /\ \A n \in Nodes(file) : n \in Nat
         /\ \A n \in Nodes(file) : Encloses(file, at, n) <=> at < n /\ n < After(file, at)
<1>1. file \in Files /\ IsPreorder(file) /\ at \in Nat /\ \A n \in Nodes(file) : n \in Nat
  BY FilesArePreorders DEF TypeInv
<1>2. /\ After(file, at) \in at + 1 .. Len(file.kind) + 1 /\ After(file, at) \in Nat
      /\ \A n \in Nodes(file) : Encloses(file, at, n) <=> at < n /\ n < After(file, at)
  BY <1>1, AfterEnds
<1> QED
  BY <1>1, <1>2 DEF NotSeen

LEMMA DescendPasses ==
  ASSUME TypeInv, phase = "walk", at \in Nodes(file), push, at \notin ToReport
  PROVE  NotSeen <= at + 1 /\ Passes(at + 1)
<1>1. NotSeen = at /\ at \in Nat /\ \A n \in ToReport : n \in Nat /\ n # at
  BY AtEvent DEF ToReport
<1> QED
  BY <1>1 DEF Passes

LEMMA DescendReports ==
  ASSUME TypeInv, phase = "walk", at \in Nodes(file), push, at \in ToReport
  PROVE  NotSeen = at /\ at < at + 1 /\ ReportsAt(at + 1)
<1>1. NotSeen = at /\ at \in Nat /\ \A n \in ToReport : n \in Nat
  BY AtEvent DEF ToReport
<1> QED
  BY <1>1 DEF ReportsAt

(* A pruned node hides nothing that is to be reported. *)
LEMMA LeavePasses ==
  ASSUME TypeInv, phase = "walk", at \in Nodes(file),
         push => /\ \A n \in ToReport : ~ Encloses(file, at, n)
                 /\ at \notin ToReport
  PROVE  NotSeen <= After(file, at) /\ Passes(After(file, at))
<1>1. CASE push
  <2>1. ASSUME NEW n \in ToReport PROVE n < at <=> n < After(file, at)
    <3>1. n \in Nodes(file) /\ n # at /\ ~ Encloses(file, at, n)
      BY <1>1 DEF ToReport
    <3> QED
      BY <3>1, AtEvent
  <2> QED
    BY <1>1, <2>1, AtEvent DEF Passes
<1>2. CASE ~ push
  BY <1>2, AtEvent DEF Passes
<1> QED
  BY <1>1, <1>2

LEMMA LeaveReports ==
  ASSUME TypeInv, phase = "walk", at \in Nodes(file), push, at \in ToReport,
         \A n \in ToReport : ~ Encloses(file, at, n)
  PROVE  NotSeen = at /\ at < After(file, at) /\ ReportsAt(After(file, at))
<1>1. ASSUME NEW n \in ToReport PROVE n < at \/ n = at <=> n < After(file, at)
  <2>1. n \in Nodes(file) /\ ~ Encloses(file, at, n)
    BY DEF ToReport
  <2> QED
    BY <2>1, AtEvent
<1> QED
  BY <1>1, AtEvent DEF ReportsAt

(* Nothing of these kinds ends a goroutine. *)
LEMMA OthersStay ==
  ASSUME NEW n, file.kind[n] \notin Testify, CalledDecl(n) = 0
  PROVE  n \notin ToReport
BY DEF ToReport, Exits, Testify

LEMMA WalkStepReports ==
  ASSUME TypeInv, VerdictInv, StackMirrorsContext, WalkIsReached, WalkReports, WalkStep
  PROVE  WalkIsReached' /\ WalkReports'
<1>1. /\ phase = "walk" /\ at \in Nodes(file) /\ Reached(at)
      /\ file' = file /\ phase' = "walk"
  BY WalkStepMoves DEF WalkIsReached
<1>2. /\ file \in Files /\ NotSeen \in Nat /\ at + 1 \in Nat /\ After(file, at) \in Nat
  BY <1>1, AtEvent
<1>3. push => (Permitted <=> ~ OutsideTest(at))
  BY <1>1, PermittedIsInside
<1>4. Kind = file.kind[at] /\ (Kind # "call" => CalledDecl(at) = 0)
  BY DEF Kind, CalledDecl
(* Going on below, with nothing to say, *)
<1>5. ASSUME Descend, push, diagnostics' = diagnostics, at \notin ToReport,
             Kind \notin {"plain", "handler"}, ~ (Kind \in Testify /\ OutsideTest(at))
      PROVE  WalkIsReached' /\ WalkReports'
  <2>1. at' \in Nodes(file) /\ Reached(at')
    BY <1>1, <1>2, <1>4, <1>5, DescendReaches
  <2>2. WalkIsReached'
    BY <1>1, <2>1, SameRules DEF WalkIsReached
  <2>3. NotSeen' = at + 1 /\ NotSeen <= at + 1 /\ Passes(at + 1)
    BY <1>1, <1>2, <1>5, SeenByDescend, DescendPasses
  <2>4. WalkReports'
    BY <1>1, <1>2, <1>5, <2>3, WalkGoesOn
  <2> QED
    BY <2>2, <2>4
(* or with a report; *)
<1>6. ASSUME Descend, push, Diagnose(at, "callee"), at \in ToReport, Kind = "call"
      PROVE  WalkIsReached' /\ WalkReports'
  <2>1. at' \in Nodes(file) /\ Reached(at')
    BY <1>1, <1>2, <1>4, <1>6, DescendReaches DEF Testify
  <2>2. WalkIsReached'
    BY <1>1, <2>1, SameRules DEF WalkIsReached
  <2>3. NotSeen' = at + 1 /\ NotSeen = at /\ at < at + 1 /\ ReportsAt(at + 1)
    BY <1>1, <1>2, <1>6, SeenByDescend, DescendReports
  <2>4. NotSeen <= at + 1
    BY <1>2, <2>3
  <2>5. WalkReports'
    BY <1>1, <1>2, <1>6, <2>3, <2>4, WalkGoesOn
  <2> QED
    BY <2>2, <2>5
(* leaving, with nothing to say, *)
<1>7. ASSUME Leave, diagnostics' = diagnostics,
             push => /\ \A n \in ToReport : ~ Encloses(file, at, n)
                     /\ at \notin ToReport
      PROVE  WalkIsReached' /\ WalkReports'
  <2>1. WalkIsReached'
    BY <1>1, <1>2, <1>7, LeaveReaches, SameRules DEF WalkIsReached
  <2>2. /\ NotSeen' = After(file, at) /\ NotSeen <= After(file, at)
        /\ Passes(After(file, at))
    BY <1>1, <1>2, <1>7, SeenByLeave, LeavePasses
  <2>3. WalkReports'
    BY <1>1, <1>2, <1>7, <2>2, WalkGoesOn
  <2> QED
    BY <2>1, <2>3
<1>8. CASE EnterStatus
  <2>1. /\ Descend /\ push /\ diagnostics' = diagnostics
        /\ Kind \in ChangesStatus
    BY <1>8 DEF EnterStatus
  <2>2. Kind \notin Testify \cup {"call", "plain", "handler"}
    BY <2>1 DEF ChangesStatus, Testify
  <2> QED
    BY <1>4, <1>5, <2>1, <2>2, OthersStay
<1>9. CASE LeaveStatus \/ (Unfiltered /\ ~ push)
  BY <1>7, <1>9 DEF LeaveStatus, Unfiltered
<1>10. CASE SkipFuncDecl
  <2>1. Leave /\ push /\ diagnostics' = diagnostics /\ Kind \in {"plain", "handler"}
    BY <1>10 DEF SkipFuncDecl
  <2>2. \A n \in ToReport : ~ Encloses(file, at, n)
    BY <1>1, <1>4, <2>1 DEF ToReport, Reached
  <2>3. at \notin ToReport
    BY <1>4, <2>1, OthersStay DEF Testify
  <2> QED
    BY <1>7, <2>1, <2>2, <2>3
<1>11. CASE Unfiltered /\ push
  <2>1. Descend /\ diagnostics' = diagnostics /\ Kind \in {"var", "lit", "hlit"}
    BY <1>11 DEF Unfiltered
  <2> QED
    BY <1>4, <1>5, <1>11, <2>1, OthersStay DEF Testify
<1>12. CASE PassCall
  <2>1. /\ Descend /\ push /\ diagnostics' = diagnostics /\ Permitted /\ Kind \in CallExprs
    BY <1>12 DEF PassCall, InCall
  <2>2. at \notin ToReport /\ ~ OutsideTest(at)
    BY <1>3, <2>1 DEF ToReport
  <2>3. Kind \notin {"plain", "handler"}
    BY <2>1 DEF CallExprs, Testify
  <2> QED
    BY <1>5, <2>1, <2>2, <2>3
<1>13. CASE CheckAssertion
  <2>1. /\ Leave /\ push /\ OutsideTest(at) /\ Kind \in Testify
        /\ IF checkCall(at) # "NoExit" THEN Diagnose(at, "goroutine") ELSE UNCHANGED diagnostics
    BY <1>3, <1>13 DEF CheckAssertion, InCall
  <2>2. \A n \in ToReport : ~ Encloses(file, at, n)
    BY <1>1, <1>4, <2>1 DEF ToReport, Reached
  <2>3. at \in ToReport <=> checkCall(at) # "NoExit"
    <3>1. CalledDecl(at) = 0
      BY <1>4, <2>1 DEF Testify
    <3>2. Exits(at) <=> checkCall(at) # "NoExit"
      BY <1>4, <2>1, <3>1 DEF Exits, checkCall, Testify
    <3> QED
      BY <1>1, <2>1, <3>2 DEF ToReport
  <2>4. CASE checkCall(at) = "NoExit"
    BY <1>7, <2>1, <2>2, <2>3, <2>4
  <2>5. CASE checkCall(at) # "NoExit"
    <3>1. WalkIsReached'
      BY <1>1, <1>2, <2>1, LeaveReaches, SameRules DEF WalkIsReached
    <3>2. /\ NotSeen' = After(file, at) /\ NotSeen = at /\ at < After(file, at)
          /\ ReportsAt(After(file, at))
      BY <1>1, <1>2, <2>1, <2>2, <2>3, <2>5, SeenByLeave, LeaveReports
    <3>3. NotSeen <= After(file, at)
      BY <1>2, <3>2
    <3>4. WalkReports'
      BY <1>1, <1>2, <2>1, <2>5, <3>2, <3>3, WalkGoesOn
    <3> QED
      BY <3>1, <3>4
  <2> QED
    BY <2>4, <2>5
<1>14. CASE PassUnknownCall
  <2>1. /\ Descend /\ push /\ diagnostics' = diagnostics /\ CalledDecl(at) = 0
        /\ Kind \in CallExprs \ Testify
    BY <1>14 DEF PassUnknownCall, InCall
  <2>2. Kind \notin {"plain", "handler"} /\ Kind \notin Testify
    BY <2>1 DEF CallExprs, Testify
  <2> QED
    BY <1>4, <1>5, <2>1, <2>2, OthersStay
<1>15. CASE CheckCallee
  <2> DEFINE g == CalledDecl(at)
             v == processedFuncs[g]
  <2>1. push /\ g # 0 /\ OutsideTest(at) /\ Kind = "call"
    BY <1>1, <1>2, <1>3, <1>4, <1>15 DEF CheckCallee, InCall
  <2>2. CASE g \in DOMAIN processedFuncs
    <3>1. v # "NoExit" /\ HoldsExit(g) /\ ReportCallee(v)
      BY <1>15, <2>2 DEF CheckCallee, VerdictInv, CacheIsSound
    <3>2. Descend /\ Diagnose(at, "callee")
      BY <3>1 DEF ReportCallee
    <3>3. at \in ToReport
      BY <1>1, <2>1, <3>1 DEF ToReport, Exits
    <3> QED
      BY <1>6, <2>1, <3>2, <3>3
  <2>3. CASE g \notin DOMAIN processedFuncs
    <3>1. UNCHANGED <<file, phase, at, push, diagnostics>>
      BY <1>15, <2>3 DEF CheckCallee
    <3>2. NotSeen' = NotSeen
      BY <3>1 DEF NotSeen
    <3> QED
      BY <1>1, <3>1, <3>2, SameRules, ReportedSame DEF WalkIsReached, WalkReports
  <2> QED
    BY <2>2, <2>3
<1> QED
  BY <1>8, <1>9, <1>10, <1>11, <1>12, <1>13, <1>14, <1>15 DEF WalkStep

LEMMA ReturnToWalkReports ==
  ASSUME TypeInv, VerdictInv, WalkWaits, StackMirrorsContext, WalkIsReached, WalkReports,
         ReturnToWalk
  PROVE  WalkIsReached' /\ WalkReports'
<1>1. /\ phase = "walk" /\ phase' = "walk" /\ at \in Nodes(file) /\ push /\ Reached(at)
      /\ file' = file /\ Len(frames) = 1 /\ CalledDecl(at) # 0 /\ Top.fd = CalledDecl(at)
      /\ ~ Permitted /\ Descend /\ Inspected
      /\ IF Top.result # "NoExit" THEN Diagnose(at, "callee") ELSE UNCHANGED diagnostics
  BY DEF ReturnToWalk, ReportCallee, Inspected, WalkWaits, WalkIsReached, Top
<1>2. /\ file \in Files /\ file.kind[at] = "call" /\ OutsideTest(at)
      /\ NotSeen \in Nat /\ at + 1 \in Nat
  BY <1>1, AtEvent, CalleesAreTests, PermittedIsInside
<1>3. Top.result # "NoExit" <=> at \in ToReport
  <2>1. Top.result # "NoExit" <=> HoldsExit(CalledDecl(at))
    BY <1>1, InspectedIsRight DEF VerdictInv
  <2> QED
    BY <1>1, <1>2, <2>1 DEF ToReport, Exits
<1>4. WalkIsReached'
  <2>1. at' \in Nodes(file) /\ Reached(at')
    BY <1>1, <1>2, DescendReaches DEF Testify
  <2> QED
    BY <1>1, <2>1, SameRules DEF WalkIsReached
<1>5. WalkReports'
  <2>1. NotSeen' = at + 1
    BY <1>1, <1>2, SeenByDescend
  <2>2. CASE at \in ToReport
    <3>1. NotSeen = at /\ at < at + 1 /\ ReportsAt(at + 1)
      BY <1>1, <2>2, DescendReports
    <3>2. NotSeen <= at + 1
      BY <1>2, <3>1
    <3> QED
      BY <1>1, <1>2, <1>3, <2>1, <2>2, <3>1, <3>2, WalkGoesOn
  <2>3. CASE at \notin ToReport
    <3>1. NotSeen <= at + 1 /\ Passes(at + 1)
      BY <1>1, <2>3, DescendPasses
    <3> QED
      BY <1>1, <1>2, <1>3, <2>1, <2>3, <3>1, WalkGoesOn
  <2> QED
    BY <2>2, <2>3
<1> QED
  BY <1>4, <1>5

LEMMA HandlerWalkKeepsReports ==
  ASSUME TypeInv, WalkReports, HandlerWalk
  PROVE  WalkReports'
<1> DEFINE k == Len(diagnostics)
<1>1. /\ TypeOK /\ phase = "handlers" /\ phase' = "handlers" /\ file' = file
      /\ diagnostics' = diagnostics \/ Diagnose(at, "handler")
      /\ ToReport' = ToReport /\ k \in Nat /\ diagnostics \in Seq(Diagnoses)
  BY SameRules DEF HandlerWalk, TypeInv, TypeOK, Diagnoses
<1>2. /\ Reported({"goroutine", "callee"}) = ToReport
      /\ \A i, j \in 1 .. k :
           i < j /\ diagnostics[j].about # "handler" => diagnostics[i].node < diagnostics[j].node
  BY <1>1 DEF WalkReports
<1>3. Reported({"goroutine", "callee"})' = ToReport
  <2>1. CASE diagnostics' = diagnostics
    BY <1>2, <2>1, ReportedSame
  <2>2. CASE Diagnose(at, "handler")
    <3>1. "handler" \notin {"goroutine", "callee"}
      OBVIOUS
    <3> QED
      BY <1>1, <1>2, <2>2, <3>1, ReportedMore
  <2> QED
    BY <1>1, <2>1, <2>2
<1>4. CASE diagnostics' = diagnostics
  BY <1>1, <1>2, <1>3, <1>4 DEF WalkReports
<1>5. CASE Diagnose(at, "handler")
  <2> DEFINE d == Diagnostic(at, "handler")
  <2>1. /\ Len(diagnostics') = k + 1 /\ diagnostics'[k + 1] = d
        /\ \A i \in 1 .. k : diagnostics'[i] = diagnostics[i]
    BY <1>1, <1>5 DEF Diagnose
  <2>2. d.about = "handler"
    BY DEF Diagnostic
  <2> HIDE DEF d, k
  <2>3. ASSUME NEW i \in 1 .. k + 1, NEW j \in 1 .. k + 1, i < j, diagnostics'[j].about # "handler"
        PROVE  diagnostics'[i].node < diagnostics'[j].node
    <3>1. j # k + 1
      BY <2>1, <2>2, <2>3
    <3>2. j \in 1 .. k /\ i \in 1 .. k
      BY <1>1, <2>3, <3>1
    <3> QED
      BY <1>2, <2>1, <2>3, <3>2
  <2> QED
    BY <1>1, <1>3, <2>1, <2>3 DEF WalkReports
<1> QED
  BY <1>1, <1>4, <1>5

(* What the walk over the package keeps. *)
ReportInv == WalkIsReached /\ WalkReports

LEMMA StepReports ==
  /\ TypeInv /\ FramesInWalk /\ WalkWaits /\ StackMirrorsContext /\ VerdictInv
  /\ ReportInv /\ [Next]_vars
  => ReportInv'
<1> SUFFICES ASSUME TypeInv, FramesInWalk, WalkWaits, StackMirrorsContext, VerdictInv,
                    WalkIsReached, WalkReports, [Next]_vars
             PROVE  WalkIsReached' /\ WalkReports'
  BY DEF ReportInv
<1>1. CASE InspectStep \/ UNCHANGED vars
  <2>1. UNCHANGED <<file, phase, at, push, diagnostics>>
    BY <1>1, InspectMoves DEF vars
  <2>2. NotSeen' = NotSeen
    BY <2>1 DEF NotSeen
  <2> QED
    BY <2>1, <2>2, SameRules, ReportedSame DEF WalkIsReached, WalkReports
<1>2. CASE EndOfWalk
  <2>1. /\ phase = "walk" /\ phase' # "walk" /\ file' = file /\ diagnostics' = diagnostics
        /\ at > Len(file.kind)
    BY <1>2 DEF EndOfWalk
  <2>2. \A n \in ToReport : n < NotSeen
    <3>1. /\ file \in Files /\ at \in Nat /\ Len(file.kind) \in Nat
          /\ \A n \in Nodes(file) : n \in Nat /\ n <= Len(file.kind)
      BY FilesArePreorders DEF TypeInv, TypeOK
    <3>2. NotSeen = at
      BY <2>1, <3>1 DEF WalkIsReached, NotSeen
    <3> QED
      BY <2>1, <3>1, <3>2 DEF ToReport
  <2>3. Reported({"goroutine", "callee"})' = ToReport
    BY <2>1, <2>2, ReportedSame DEF WalkReports
  <2> QED
    BY <2>1, <2>3, SameRules DEF WalkIsReached, WalkReports
<1>3. CASE HandlerWalk
  <2>1. phase' # "walk"
    BY <1>3 DEF HandlerWalk
  <2> QED
    BY <1>3, <2>1, HandlerWalkKeepsReports DEF WalkIsReached
<1>4. CASE EndOfHandlers
  <2>1. phase # "walk" /\ phase' # "walk" /\ file' = file /\ diagnostics' = diagnostics
    BY <1>4 DEF EndOfHandlers
  <2> QED
    BY <2>1, SameRules, ReportedSame DEF WalkIsReached, WalkReports
<1> QED
  BY <1>1, <1>2, <1>3, <1>4, WalkStepReports, ReturnToWalkReports
     DEF Next, WalkStep, InspectStep, VerdictInv

LEMMA InitReports == Init => ReportInv
<1> SUFFICES ASSUME Init PROVE ReportInv
  OBVIOUS
<1>1. /\ file \in Files /\ phase = "walk" /\ at = 1 /\ push = TRUE /\ Len(diagnostics) = 0
  BY DEF Init
<1>2. \A n \in Nodes(file) : ~ (n < 1) /\ ~ Encloses(file, n, 1)
  <2>1. \A n \in Nodes(file) : ~ (n < 1)
    <3> SUFFICES ASSUME NEW n \in Nodes(file) PROVE ~ (n < 1)
      OBVIOUS
    <3>1. n \in Nat /\ 1 <= n
      BY <1>1, FilesArePreorders
    <3> QED
      BY <3>1
  <2> QED
    BY <2>1 DEF Encloses
<1>3. WalkIsReached
  BY <1>1, <1>2 DEF WalkIsReached, Reached
<1>4. Reported({"goroutine", "callee"}) = {}
  BY <1>1 DEF Reported
<1>5. WalkReports
  BY <1>1, <1>2, <1>4 DEF WalkReports, NotSeen, ToReport
<1> QED
  BY <1>3, <1>5 DEF ReportInv

(* Of what the walk reaches it reports the exiting assertions outside of   *)
(* the test's goroutine and the calls there of functions that hold one, in *)
(* a subtest or not: all of them, nothing else, and each once.             *)
THEOREM WalkCorrect == Spec => []WalkReportsExactly
<1>1. Spec => []ReportInv
  BY InitReports, StepReports, ContextHolds, VerdictsHold, PTL DEF Spec
<1>2. ReportInv => WalkReportsExactly
  BY DEF ReportInv, WalkReports, WalkReportsExactly, ToReport
<1> QED
  BY <1>1, <1>2, PTL
=============================================================================
