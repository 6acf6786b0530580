----------------------------- MODULE GoRequire -----------------------------
(***************************************************************************)
(* internal/checkers/go_require.go: the check that functions ending the    *)
(* goroutine (require, assert.FailNow) are only called by the goroutine    *)
(* running the test.  A walk over the package keeps a stack of "are we in  *)
(* that goroutine"; a call of a test function met outside of it is judged  *)
(* by checkFunc, a recursive walk over the called function with a cache of *)
(* verdicts; a last walk looks at HTTP handlers.                           *)
(*                                                                         *)
(* inspector.Nodes calls back on entering a node (push) and on leaving it  *)
(* (not push), but not on leaving one whose entry answered false.          *)
(***************************************************************************)
EXTENDS GoRequireTree, FiniteSets

CONSTANTS
  Files,               \* the packages to check
  IgnoreHTTPHandlers,  \* the checker's setting
  MaxDepth             \* bound on the activations of checkFunc

ASSUME GoRequireAssumption ==
  /\ \A f \in Files : IsTree(f)
  /\ IgnoreHTTPHandlers \in BOOLEAN /\ MaxDepth \in Nat

VARIABLES
  file,           \* the package
  phase,          \* "walk", "handlers" or "done"
  at, push,       \* the inspector's event
  inGoroutineRunningTestFunc,   \* the boolStack
  frames,         \* activations of checkFunc, the innermost last
  processedFuncs, \* verdicts cached by declaration
  diagnostics

vars == <<file, phase, at, push, inGoroutineRunningTestFunc, frames, processedFuncs, diagnostics>>

Init ==
  /\ file \in Files
  /\ phase = "walk" /\ at = 1 /\ push = TRUE
  /\ inGoroutineRunningTestFunc = <<>>
  /\ frames = <<>>
  /\ processedFuncs = [fd \in {} |-> "NoExit"]
  /\ diagnostics = <<>>

Kind == file.kind[at]
Walking == phase = "walk" /\ frames = <<>> /\ at <= Len(file.kind)

(* isTestingFuncOrMethod. *)
IsTesting(n) == file.kind[n] \in {"test", "thandler"}

(* testsDecls.Get: the declaration a call resolves to, if it is a testing  *)
(* function of the package; 0 otherwise.                                   *)
CalledDecl(n) ==
  IF file.kind[n] = "call" /\ IsTesting(file.callee[n]) THEN file.callee[n] ELSE 0

checkCall(n) ==
  CASE file.kind[n] = "require" -> "Require"
    [] file.kind[n] = "failnow" -> "AssertFailNow"
    [] file.kind[n] = "assert"  -> "NoExit"

Diagnostic(n, about) == [node |-> n, about |-> about]
Diagnose(n, about) == diagnostics' = Append(diagnostics, Diagnostic(n, about))

(* The event after a callback on entering `at` that answered true. *)
Descend ==
  IF at + 1 \in Nodes(file) /\ file.up[at + 1] = at
  THEN at' = at + 1 /\ push' = TRUE
  ELSE at' = at /\ push' = FALSE

(* Fault: a top-level declaration is left like any other node. *)
LeaveToParent ==
  LET m == After(file, at) IN
  IF m \notin Nodes(file) \/ file.up[m] # file.up[at]
  THEN at' = file.up[at] /\ push' = FALSE
  ELSE at' = m /\ push' = TRUE

(* The event after a callback that answered false or was on leaving `at`. *)
Leave ==
  LET m == After(file, at) IN
  IF file.up[at] # 0 /\ (m \notin Nodes(file) \/ file.up[m] # file.up[at])
  THEN at' = file.up[at] /\ push' = FALSE
  ELSE at' = m /\ push' = TRUE

Push(v) == inGoroutineRunningTestFunc' = Append(inGoroutineRunningTestFunc, v)

(* Pop of an empty stack leaves it empty. *)
Pop ==
  inGoroutineRunningTestFunc' =
    IF inGoroutineRunningTestFunc = <<>> THEN <<>>
    ELSE SubSeq(inGoroutineRunningTestFunc, 1, Len(inGoroutineRunningTestFunc) - 1)

(* What a node that changes the status pushes. *)
Status(k) ==
  CASE k \in {"test", "thandler", "sig", "run"} -> TRUE
    [] k = "go" -> FALSE
ChangesStatus == {"test", "thandler", "sig", "run", "go"}

EnterStatus ==
  /\ Walking /\ push /\ Kind \in ChangesStatus
  /\ Push(Status(Kind))
  /\ Descend
  /\ UNCHANGED <<file, phase, frames, processedFuncs, diagnostics>>

(* Fault: the status survives the node it belongs to. *)
LeaveWithoutPop ==
  /\ Walking /\ ~ push /\ Kind \in ChangesStatus
  /\ Leave
  /\ UNCHANGED <<file, phase, inGoroutineRunningTestFunc, frames, processedFuncs, diagnostics>>

LeaveStatus ==
  /\ Walking /\ ~ push /\ Kind \in ChangesStatus
  /\ Pop
  /\ Leave
  /\ UNCHANGED <<file, phase, frames, processedFuncs, diagnostics>>

(* A declaration that is not a testing function is not walked. *)
SkipFuncDecl ==
  /\ Walking /\ push /\ Kind \in {"plain", "handler"}
  /\ Leave
  /\ UNCHANGED <<file, phase, inGoroutineRunningTestFunc, frames, processedFuncs, diagnostics>>

(* Nodes the filter does not name, and the end of a call expression. *)
Unfiltered ==
  /\ Walking
  /\ IF push THEN Kind \in {"var", "lit", "hlit"} /\ Descend
     ELSE Kind \notin ChangesStatus /\ Leave
  /\ UNCHANGED <<file, phase, inGoroutineRunningTestFunc, frames, processedFuncs, diagnostics>>

InCall == Walking /\ push /\ Kind \in CallExprs \ {"run"}

Last ==
  IF inGoroutineRunningTestFunc = <<>> THEN FALSE
  ELSE inGoroutineRunningTestFunc[Len(inGoroutineRunningTestFunc)]

(* Fault: the outermost status decides. *)
PermittedByFirst == inGoroutineRunningTestFunc # <<>> => inGoroutineRunningTestFunc[1]

(* Len() = 0 (insufficient info) or Last(): nothing to say of the call. *)
Permitted == inGoroutineRunningTestFunc = <<>> \/ Last

PassCall ==
  /\ InCall /\ Permitted
  /\ Descend
  /\ UNCHANGED <<file, phase, inGoroutineRunningTestFunc, frames, processedFuncs, diagnostics>>

(* An assertion outside of the test's goroutine; its arguments are not     *)
(* walked.                                                                 *)
CheckAssertion ==
  /\ InCall /\ ~ Permitted /\ Kind \in Testify
  /\ IF checkCall(at) # "NoExit" THEN Diagnose(at, "goroutine") ELSE UNCHANGED diagnostics
  /\ Leave
  /\ UNCHANGED <<file, phase, inGoroutineRunningTestFunc, frames, processedFuncs>>

PassUnknownCall ==
  /\ InCall /\ ~ Permitted /\ Kind \notin Testify /\ CalledDecl(at) = 0
  /\ Descend
  /\ UNCHANGED <<file, phase, inGoroutineRunningTestFunc, frames, processedFuncs, diagnostics>>

Activation(fd) == [fd |-> fd, at |-> fd, result |-> "NoExit"]

ReportCallee(v) ==
  /\ IF v # "NoExit" THEN Diagnose(at, "callee") ELSE UNCHANGED diagnostics
  /\ Descend

(* checkFunc: a cached verdict, or a new activation. *)
CheckCallee ==
  /\ InCall /\ ~ Permitted /\ CalledDecl(at) # 0
  /\ IF CalledDecl(at) \in DOMAIN processedFuncs
     THEN ReportCallee(processedFuncs[CalledDecl(at)]) /\ UNCHANGED frames
     ELSE /\ frames' = <<Activation(CalledDecl(at))>>
          /\ UNCHANGED <<at, push, diagnostics>>
  /\ UNCHANGED <<file, phase, inGoroutineRunningTestFunc, processedFuncs>>
-----------------------------------------------------------------------------
(* checkFunc's ast.Inspect.                                                *)
Top == frames[Len(frames)]
Inspecting ==
  /\ phase = "walk" /\ frames # <<>>
  /\ Top.result = "NoExit" /\ Top.at < After(file, Top.fd)

Continue(top) == frames' = [frames EXCEPT ![Len(frames)] = top]
Into(top) == [top EXCEPT !.at = @ + 1]
Past(top) == [top EXCEPT !.at = After(file, @)]

FrameStep == UNCHANGED <<file, phase, at, push, inGoroutineRunningTestFunc>>

InspectGo ==
  /\ Inspecting /\ file.kind[Top.at] = "go"
  /\ Continue(Past(Top))
  /\ FrameStep /\ UNCHANGED <<processedFuncs, diagnostics>>

(* Fault: the verdict of the first assertion is cached, whatever it is. *)
CacheEveryVerdict ==
  /\ Inspecting /\ file.kind[Top.at] \in Testify
  /\ Continue([Past(Top) EXCEPT !.result = checkCall(Top.at)])
  /\ processedFuncs' =
       [fd \in DOMAIN processedFuncs \cup {Top.fd} |->
          IF fd = Top.fd THEN checkCall(Top.at) ELSE processedFuncs[fd]]
  /\ FrameStep /\ UNCHANGED diagnostics

(* Only a verdict found in the function itself is cached. *)
InspectAssertion ==
  /\ Inspecting /\ file.kind[Top.at] \in Testify
  /\ Continue([Past(Top) EXCEPT !.result = checkCall(Top.at)])
  /\ processedFuncs' =
       IF checkCall(Top.at) = "NoExit" THEN processedFuncs
       ELSE [fd \in DOMAIN processedFuncs \cup {Top.fd} |->
               IF fd = Top.fd THEN checkCall(Top.at) ELSE processedFuncs[fd]]
  /\ FrameStep /\ UNCHANGED diagnostics

(* Fault: no test for direct recursion. *)
NotCallOfTest(n, fd) == CalledDecl(n) = 0

(* Everything that is not a call of a testing function, and the function's *)
(* call of itself.                                                         *)
Passable(n, fd) == CalledDecl(n) \in {0, fd}

InspectOther ==
  /\ Inspecting /\ file.kind[Top.at] \notin Testify \cup {"go"}
  /\ Passable(Top.at, Top.fd)
  /\ Continue(Into(Top))
  /\ FrameStep /\ UNCHANGED <<processedFuncs, diagnostics>>

TakeVerdict(top, v) ==
  IF v # "NoExit" THEN [Past(top) EXCEPT !.result = v] ELSE Into(top)

InspectCall ==
  /\ Inspecting /\ file.kind[Top.at] = "call" /\ ~ Passable(Top.at, Top.fd)
  /\ LET g == CalledDecl(Top.at) IN
       IF g \in DOMAIN processedFuncs
       THEN Continue(TakeVerdict(Top, processedFuncs[g]))
       ELSE Len(frames) < MaxDepth /\ frames' = Append(frames, Activation(g))
  /\ FrameStep /\ UNCHANGED <<processedFuncs, diagnostics>>

(* With a result every further callback answers false. *)
Inspected ==
  /\ phase = "walk" /\ frames # <<>>
  /\ Top.result # "NoExit" \/ Top.at = After(file, Top.fd)

ReturnToCaller ==
  /\ Inspected /\ Len(frames) > 1
  /\ LET caller == frames[Len(frames) - 1] IN
       frames' = [SubSeq(frames, 1, Len(frames) - 1)
                    EXCEPT ![Len(frames) - 1] = TakeVerdict(caller, Top.result)]
  /\ FrameStep /\ UNCHANGED <<processedFuncs, diagnostics>>

ReturnToWalk ==
  /\ Inspected /\ Len(frames) = 1
  /\ frames' = <<>>
  /\ ReportCallee(Top.result)
  /\ UNCHANGED <<file, phase, inGoroutineRunningTestFunc, processedFuncs>>
-----------------------------------------------------------------------------
EndOfWalk ==
  /\ phase = "walk" /\ frames = <<>> /\ at > Len(file.kind)
  /\ phase' = IF IgnoreHTTPHandlers THEN "done" ELSE "handlers"
  /\ at' = 1 /\ push' = TRUE
  /\ UNCHANGED <<file, inGoroutineRunningTestFunc, frames, processedFuncs, diagnostics>>

Funcs == FuncDecls \cup {"lit", "hlit"}

(* Fault: any function around n decides. *)
InsideHandler(n) ==
  \E h \in Nodes(file) : file.kind[h] \in {"handler", "thandler", "hlit"} /\ Encloses(file, h, n)

(* findSurroundingFunc, and whether it has the signature of a handler. *)
InHandler(n) ==
  \E h \in Nodes(file) :
    /\ file.kind[h] \in {"handler", "thandler", "hlit"} /\ Encloses(file, h, n)
    /\ \A m \in Nodes(file) : file.kind[m] \in Funcs /\ Encloses(file, m, n) => m <= h

HandlerWalk ==
  /\ phase = "handlers" /\ at <= Len(file.kind)
  /\ IF Kind \in Testify /\ InHandler(at)
     THEN /\ IF checkCall(at) # "NoExit" THEN Diagnose(at, "handler") ELSE UNCHANGED diagnostics
          /\ at' = After(file, at)
     ELSE at' = at + 1 /\ UNCHANGED diagnostics
  /\ UNCHANGED <<file, phase, push, inGoroutineRunningTestFunc, frames, processedFuncs>>

EndOfHandlers ==
  /\ phase = "handlers" /\ at > Len(file.kind)
  /\ phase' = "done"
  /\ UNCHANGED <<file, at, push, inGoroutineRunningTestFunc, frames, processedFuncs, diagnostics>>

Next ==
  \/ EnterStatus \/ LeaveStatus \/ SkipFuncDecl \/ Unfiltered
  \/ PassCall \/ CheckAssertion \/ PassUnknownCall \/ CheckCallee
  \/ InspectGo \/ InspectAssertion \/ InspectOther \/ InspectCall
  \/ ReturnToCaller \/ ReturnToWalk
  \/ EndOfWalk \/ HandlerWalk \/ EndOfHandlers

Spec == Init /\ [][Next]_vars
-----------------------------------------------------------------------------
Verdicts == {"NoExit", "Require", "AssertFailNow"}

(* Every variable has its type. *)
TypeOK ==
  /\ phase \in {"walk", "handlers", "done"}
  /\ at \in 1 .. Len(file.kind) + 1 /\ push \in BOOLEAN
  /\ inGoroutineRunningTestFunc \in Seq(BOOLEAN)
  /\ frames \in Seq([fd : Nodes(file), at : 1 .. Len(file.kind) + 1, result : Verdicts])
  /\ DOMAIN processedFuncs \subseteq Nodes(file)
  /\ \A fd \in DOMAIN processedFuncs : processedFuncs[fd] \in Verdicts
  /\ diagnostics \in Seq([node : Nodes(file), about : {"goroutine", "callee", "handler"}])

(* The nodes whose status is in force at the event: those around it, and   *)
(* the node being left.                                                    *)
Open ==
  { n \in Nodes(file) :
      /\ file.kind[n] \in ChangesStatus
      /\ at \in Nodes(file)
      /\ Encloses(file, n, at) \/ (n = at /\ ~ push) }

(* Pushes and pops stay paired although pruned nodes are never left: the   *)
(* stack holds the statuses of exactly the open nodes, outermost first,    *)
(* and is empty again when the walk is over.                               *)
StackMirrorsContext ==
  phase = "walk" =>
    /\ Len(inGoroutineRunningTestFunc) = Cardinality(Open)
    /\ \A n \in Open :
         inGoroutineRunningTestFunc[Cardinality({m \in Open : m <= n})] = Status(file.kind[n])

(* n runs outside of the goroutine of the test. *)
OutsideTest(n) ==
  \E g \in Nodes(file) :
    /\ file.kind[g] = "go" /\ Encloses(file, g, n)
    /\ \A m \in Nodes(file) : file.kind[m] \in ChangesStatus /\ Encloses(file, m, n) => m <= g

(* The walk reaches n: it is not in a function that is not walked, nor in  *)
(* the arguments of an assertion that was judged.                          *)
Reached(n) ==
  \A m \in Nodes(file) : Encloses(file, m, n) =>
    /\ file.kind[m] \notin {"plain", "handler"}
    /\ ~ (file.kind[m] \in Testify /\ OutsideTest(m))

(* The part of a function that its callers run: neither what it starts     *)
(* with `go` nor the arguments of its assertions.                          *)
Runs(fd, n, opaque) ==
  /\ Encloses(file, fd, n)
  /\ \A m \in Nodes(file) :
       Encloses(file, fd, m) /\ Encloses(file, m, n) => file.kind[m] \notin opaque

Callees(S, opaque) ==
  { CalledDecl(n) : n \in { m \in Nodes(file) :
      CalledDecl(m) # 0 /\ \E fd \in S : Runs(fd, m, opaque) } }

(* The testing functions that fd calls directly or not, and itself: the    *)
(* least set that holds it and the callees of its members.                 *)
TestingDecls == { n \in Nodes(file) : IsTesting(n) }
ReachableFrom(fd, opaque) ==
  { g \in TestingDecls :
      \A S \in SUBSET TestingDecls : fd \in S /\ Callees(S, opaque) \subseteq S => g \in S }

Opaque == Testify \cup {"go"}

(* An assertion that exits is in the part that fd, or a testing function   *)
(* it reaches by calls, runs, in a subtest or not: such a function need    *)
(* not end the goroutine of its caller, as a subtest has one of its own.   *)
HoldsExit(fd) ==
  \E g \in ReachableFrom(fd, Opaque), n \in Nodes(file) :
    file.kind[n] \in {"require", "failnow"} /\ Runs(g, n, Opaque)

(* Whatever the call graph, and whatever the cache already holds, checkFunc *)
(* answers "exits" exactly for the functions with an exiting assertion, be *)
(* it directly or in the testing functions they call, on this side of `go` *)
(* but subtests included: an answer is never wrong for a callee met before, *)
(* met twice or met on the way to itself.                                  *)
VerdictIsExact ==
  Inspected => (Top.result # "NoExit" <=> HoldsExit(Top.fd))

(* A cached verdict is never NoExit and never wrong. *)
CacheIsSound ==
  \A fd \in DOMAIN processedFuncs : processedFuncs[fd] # "NoExit" /\ HoldsExit(fd)

(* What checkFunc says and what it will say again. *)
VerdictsAreExact == VerdictIsExact /\ CacheIsSound

Reported(S) == { diagnostics[i].node : i \in { j \in 1 .. Len(diagnostics) : diagnostics[j].about \in S } }

(* An exiting assertion, or a call of a function that holds one. *)
Exits(n) ==
  file.kind[n] \in {"require", "failnow"} \/ (CalledDecl(n) # 0 /\ HoldsExit(CalledDecl(n)))

(* The walk reports the exiting assertions outside of the test's goroutine *)
(* and the calls there of functions that hold one, be it in a subtest, all *)
(* of them, nothing else, and each once.                                   *)
WalkReportsExactly ==
  phase = "done" =>
    /\ Reported({"goroutine", "callee"}) =
         { n \in Nodes(file) : OutsideTest(n) /\ Reached(n) /\ Exits(n) }
    /\ \A i, j \in 1 .. Len(diagnostics) :
         i < j /\ diagnostics[j].about # "handler" => diagnostics[i].node < diagnostics[j].node

(* n is in a handler and in no function nested in it. *)
HandlerOwns(n) ==
  \E h \in Nodes(file) :
    /\ file.kind[h] \in {"handler", "thandler", "hlit"} /\ Encloses(file, h, n)
    /\ ~ \E m \in Nodes(file) :
          file.kind[m] \in Funcs /\ Encloses(file, h, m) /\ Encloses(file, m, n)

(* Unless the setting turns it off, every exiting assertion of an HTTP     *)
(* handler is reported, except in the arguments of another assertion.      *)
HandlersReportExactly ==
  phase = "done" =>
    Reported({"handler"}) =
      IF IgnoreHTTPHandlers THEN {}
      ELSE { n \in Nodes(file) :
               /\ file.kind[n] \in {"require", "failnow"} /\ HandlerOwns(n)
               /\ ~ \E m \in Nodes(file) :
                     file.kind[m] \in Testify /\ Encloses(file, m, n) /\ HandlerOwns(m) }

(* checkFunc is not entered again for a function it is busy with: "This    *)
(* leads to recursion, which the cache of processed functions helps reduce *)
(* the impact of".                                                         *)
NoReentry ==
  \A i, j \in 1 .. Len(frames) : i # j => frames[i].fd # frames[j].fd

(* Two testing functions that reach each other. *)
MutualRecursion ==
  \E g, h \in Nodes(file) :
    /\ g # h /\ IsTesting(g) /\ IsTesting(h)
    /\ h \in ReachableFrom(g, Opaque) /\ g \in ReachableFrom(h, Opaque)

(* Only mutual recursion makes checkFunc come back to a function, not one  *)
(* that calls itself and not one with several callers.                     *)
ReentryIsMutual == NoReentry \/ MutualRecursion
=============================================================================
