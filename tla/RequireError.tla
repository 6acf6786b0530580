---------------------------- MODULE RequireError ----------------------------
(***************************************************************************)
(* internal/checkers/require_error.go: error assertions of package assert  *)
(* are reported unless the context excuses them.  A walk collects the      *)
(* calls of every function; two passes over maps, in an order Go leaves    *)
(* open, regroup them by block and mark sequences of NoError; a last one   *)
(* judges the calls of each function.  Kinds of node:                      *)
(*   func     function declaration or literal                              *)
(*   exempt   one that is a cleanup or teardown, an HTTP handler or what a *)
(*            go statement calls                                           *)
(*   var      package-level variable, whose value may hold calls           *)
(*   block    block statement      return   return statement               *)
(*   if       if statement: at most one condition (or call its init        *)
(*            statement assigns), the block and at most one else           *)
(*   bool     binary expression    unary    `!` or parentheses             *)
(*   NoError, Error   assert.NoError; any other error assertion of assert  *)
(*   require, assert  require.NoError; an assertion on something else      *)
(*   call     call that is no assertion                                    *)
(* Case and select clauses, whose calls the code files under the block of  *)
(* the whole statement, are left out.                                      *)
(***************************************************************************)
EXTENDS SyntaxTree, FiniteSets

CONSTANTS
  Files,       \* the packages to check
  Patterns     \* the settings: what fn-pattern can match, everything if it is nil

FuncKinds == {"func", "exempt"}
ErrorAssertions == {"NoError", "Error"}
Testify == ErrorAssertions \cup {"require", "assert"}
CallKinds == Testify \cup {"call"}
ExprKinds == CallKinds \cup {"bool", "unary"}
Kinds == FuncKinds \cup ExprKinds \cup {"var", "block", "if", "return"}

Kids(f, n) == { m \in Nodes(f) : f.up[m] = n }

(* Where the grammar allows node n, given the nodes before it. *)
Fits(f, n) ==
  LET p == f.up[n]
      elder == { m \in Kids(f, p) : m < n }
      in(kinds) == p # 0 /\ f.kind[p] \in kinds
      body == { m \in elder : f.kind[m] = "block" }
  IN
  /\ InPreorder(f, n)
  /\ \A m \in elder : p # 0 => f.kind[m] # "return"
  /\ CASE f.kind[n] \in FuncKinds -> p = 0 \/ in({"call", "var"})
       [] f.kind[n] = "var"       -> p = 0
       [] f.kind[n] = "block"     -> \/ in({"block"})
                                     \/ in(FuncKinds) /\ elder = {}
                                     \/ in({"if"}) /\ Cardinality(elder \ body) <= 1
                                                   /\ \A m \in elder : f.kind[m] # "if"
                                                   /\ Cardinality(body) <= 1
       [] f.kind[n] = "if"        -> \/ in({"block"})
                                     \/ in({"if"}) /\ Cardinality(body) = 1
                                                   /\ \A m \in elder : f.kind[m] # "if"
       [] f.kind[n] = "return"    -> in({"block"})
       [] OTHER                   -> \/ in({"block", "bool", "return", "call", "var"})
                                     \/ in({"if", "unary"}) /\ elder = {}

IsFile(f) ==
  /\ f.kind \in Seq(Kinds) /\ Len(f.up) = Len(f.kind)
  /\ \A n \in Nodes(f) :
       /\ Fits(f, n)
       /\ f.kind[n] \in FuncKinds \cup {"if"} => \E m \in Kids(f, n) : f.kind[m] = "block"
       /\ f.kind[n] \in {"bool", "unary"} => Kids(f, n) # {}

ASSUME RequireErrorAssumption ==
  /\ \A f \in Files : IsFile(f)
  /\ Patterns \subseteq SUBSET ErrorAssertions

VARIABLES
  file,           \* the package
  fnPattern,      \* the error assertions the checker's pattern matches
  phase,          \* "collect", "group", "mark", "judge" or "done"
  at,             \* the node the inspector is at
  callsByFunc, callsByBlock,
  unvisited,      \* keys the current range over a map has not produced yet
  current, index, \* the range over the calls of a function: which, where
  inNoErrorSeq,   \* the calls that have this mark
  diagnostics

vars == <<file, fnPattern, phase, at, callsByFunc, callsByBlock, unvisited, current, index,
          inNoErrorSeq, diagnostics>>

Init ==
  /\ file \in Files /\ fnPattern \in Patterns
  /\ phase = "collect" /\ at = 1
  /\ callsByFunc = [fd \in {} |-> <<>>] /\ callsByBlock = [b \in {} |-> <<>>]
  /\ unvisited = {} /\ current = 0 /\ index = 1
  /\ inNoErrorSeq = {}
  /\ diagnostics = <<>>
-----------------------------------------------------------------------------
Kind(n) == file.kind[n]

(* findSurroundingFunc, findNearestNode. *)
FuncOf(n) == Nearest(file, FuncKinds, n)
ParentIf(n) == Nearest(file, {"if"}, n)
ParentBlock(n) == Nearest(file, {"block"}, n)

(* findRootIf: up the else-if chain. *)
RootIf(n) ==
  LET root[i \in {0} \cup Nodes(file)] ==
        IF i # 0 /\ file.up[i] # 0 /\ Kind(file.up[i]) = "if" THEN root[file.up[i]] ELSE i
  IN  root[ParentIf(n)]

InIfCond(n) == Kind(file.up[n]) = "if"
InBoolExpr(n) == Kind(file.up[n]) = "bool"

(* Where n is in the statement i: its else branch, or the other one. *)
Branches(i) == { m \in Kids(file, i) : Kind(m) \in {"block", "if"} }
InElse(i, n) ==
  \E e \in Branches(i) :
    /\ \E b \in Branches(i) : b < e
    /\ n = e \/ Encloses(file, e, n)

(* m[k] = append(m[k], c) *)
Extend(m, k, c) ==
  [x \in DOMAIN m \cup {k} |->
     IF x # k THEN m[x] ELSE Append(IF k \in DOMAIN m THEN m[k] ELSE <<>>, c)]

(* Stage 1.  Calls in the arguments of an assertion are not visited. *)
CollectCall ==
  /\ phase = "collect" /\ at \in Nodes(file) /\ Kind(at) \in CallKinds
  /\ FuncOf(at) # 0
  /\ callsByFunc' = Extend(callsByFunc, FuncOf(at), at)
  /\ at' = IF Kind(at) \in Testify THEN After(file, at) ELSE at + 1
  /\ UNCHANGED <<file, fnPattern, phase, callsByBlock, unvisited, current, index, inNoErrorSeq,
                 diagnostics>>

PassNode ==
  /\ phase = "collect" /\ at \in Nodes(file)
  /\ Kind(at) \notin CallKinds \/ FuncOf(at) = 0
  /\ at' = at + 1
  /\ UNCHANGED <<file, fnPattern, phase, callsByFunc, callsByBlock, unvisited, current, index,
                 inNoErrorSeq, diagnostics>>

(* The calls that are ranged over, and whether they have come to an end. *)
Ranged == IF current = 0 THEN <<>> ELSE callsByFunc[current]
AllRanged == index > Len(Ranged)

(* The next stage, with a range over the keys of its map. *)
NextStage(from, to, keys) ==
  /\ phase = from /\ unvisited = {} /\ AllRanged
  /\ phase' = to /\ unvisited' = keys
  /\ UNCHANGED <<file, fnPattern, at, callsByFunc, callsByBlock, current, index, inNoErrorSeq,
                 diagnostics>>

EndOfWalk == at \notin Nodes(file) /\ NextStage("collect", "group", DOMAIN callsByFunc)
EndOfGrouping == NextStage("group", "mark", DOMAIN callsByBlock)
EndOfMarking == NextStage("mark", "judge", DOMAIN callsByFunc)
EndOfJudging == NextStage("judge", "done", {})

(* The next key of a range over callsByFunc: begin with its calls. *)
RangeOver(fd) ==
  /\ phase \in {"group", "judge"} /\ AllRanged
  /\ unvisited' = unvisited \ {fd}
  /\ current' = fd /\ index' = 1
  /\ UNCHANGED <<file, fnPattern, phase, at, callsByFunc, callsByBlock, inNoErrorSeq, diagnostics>>

(* One call of such a range. *)
Iterate(stage) ==
  /\ phase = stage /\ ~ AllRanged
  /\ index' = index + 1
  /\ UNCHANGED <<file, fnPattern, phase, at, callsByFunc, unvisited, current>>

(* Stage 2: the calls of a function, by their block. *)
GroupCall ==
  /\ Iterate("group")
  /\ LET c == Ranged[index] IN
       callsByBlock' = IF ParentBlock(c) = 0 THEN callsByBlock
                       ELSE Extend(callsByBlock, ParentBlock(c), c)
  /\ UNCHANGED <<inNoErrorSeq, diagnostics>>

IsNoError(calls, i) == i \in 1 .. Len(calls) /\ Kind(calls[i]) \in {"NoError", "require"}

(* Fault: only a NoError before makes a sequence. *)
SequenceByPrevious(calls, i) == IsNoError(calls, i) /\ IsNoError(calls, i - 1)

InSequence(calls, i) ==
  IsNoError(calls, i) /\ (IsNoError(calls, i - 1) \/ IsNoError(calls, i + 1))

(* markCallsInNoErrorSequence, one block. *)
MarkBlock(b) ==
  /\ phase = "mark"
  /\ unvisited' = unvisited \ {b}
  /\ LET calls == callsByBlock[b] IN
       inNoErrorSeq' =
         inNoErrorSeq \cup { calls[i] : i \in { j \in 1 .. Len(calls) : InSequence(calls, j) } }
  /\ UNCHANGED <<file, fnPattern, phase, at, callsByFunc, callsByBlock, current, index, diagnostics>>

EndsWithReturn(b) == \E r \in Kids(file, b) : Kind(r) = "return"

(* Fault: the call after the current one is not looked at. *)
NoCallsAfterNext(calls, i) ==
  \/ EndsWithReturn(ParentBlock(calls[i]))
  \/ \A j \in i + 2 .. Len(calls) : InElse(ParentIf(calls[i]), calls[j])

(* No later call of the function, those in the else branch of the nearest  *)
(* `if` apart; a return at the end of the block settles it.                *)
NoCallsAfter(calls, i) ==
  \/ EndsWithReturn(ParentBlock(calls[i]))
  \/ \A j \in i + 1 .. Len(calls) :
       ParentIf(calls[i]) # 0 /\ InElse(ParentIf(calls[i]), calls[j])

IsLastCallInBlock(c) ==
  LET calls == callsByBlock[ParentBlock(c)] IN calls[Len(calls)] = c

needToSkipBasedOnContext(calls, i) ==
  LET c == calls[i] IN
  \/ InIfCond(c) \/ InBoolExpr(c) \/ c \in inNoErrorSeq
  \/ /\ RootIf(c) # 0
     /\ \E j \in 1 .. Len(calls) : RootIf(calls[j]) = RootIf(c) /\ InIfCond(calls[j])
  \/ IsLastCallInBlock(c) /\ NoCallsAfter(calls, i)

JudgeCall ==
  /\ Iterate("judge")
  /\ LET c == Ranged[index]
         reported == /\ Kind(current) # "exempt"
                     /\ Kind(c) \in ErrorAssertions
                     /\ ~ needToSkipBasedOnContext(Ranged, index)
                     /\ Kind(c) \in fnPattern
     IN  diagnostics' = IF reported THEN Append(diagnostics, c) ELSE diagnostics
  /\ UNCHANGED <<callsByBlock, inNoErrorSeq>>

Next ==
  \/ CollectCall \/ PassNode
  \/ EndOfWalk \/ EndOfGrouping \/ EndOfMarking \/ EndOfJudging
  \/ \E fd \in unvisited : RangeOver(fd)
  \/ GroupCall
  \/ \E b \in unvisited : MarkBlock(b)
  \/ JudgeCall

Spec == Init /\ [][Next]_vars
-----------------------------------------------------------------------------
(* What the rules are about, said of the tree alone: no lists, no order.   *)
Calls ==
  { n \in Nodes(file) :
      /\ Kind(n) \in CallKinds /\ FuncOf(n) # 0
      /\ ~ \E m \in Nodes(file) :
             Kind(m) \in Testify /\ Encloses(file, m, n) /\ FuncOf(m) # 0 }
SameFunc(n) == { m \in Calls : FuncOf(m) = FuncOf(n) }
SameBlock(n) == { m \in Calls : ParentBlock(m) = ParentBlock(n) }

Candidates ==
  { n \in Calls : Kind(n) \in ErrorAssertions \cap fnPattern /\ Kind(FuncOf(n)) = "func" }

NextToNoError(n) ==
  /\ Kind(n) = "NoError"
  /\ \E m \in SameBlock(n) :
       /\ m # n /\ Kind(m) \in {"NoError", "require"}
       /\ ~ \E k \in SameBlock(n) : k \in (m + 1 .. n - 1) \cup (n + 1 .. m - 1)

CallInSomeCondition(n) ==
  RootIf(n) # 0 /\ \E m \in SameFunc(n) : InIfCond(m) /\ RootIf(m) = RootIf(n)

IsLast(n) ==
  /\ \A m \in SameBlock(n) : m <= n
  /\ \/ EndsWithReturn(ParentBlock(n))
     \/ \A m \in SameFunc(n) : m > n => ParentIf(n) # 0 /\ InElse(ParentIf(n), m)

Excused(n) ==
  InIfCond(n) \/ InBoolExpr(n) \/ NextToNoError(n) \/ CallInSomeCondition(n) \/ IsLast(n)

Reported == { diagnostics[i] : i \in 1 .. Len(diagnostics) }

(* Whatever order the three maps are ranged over in, the check reports     *)
(* exactly the error assertions that nothing in the tree excuses, each     *)
(* once, and those of one function in source order.                        *)
ReportsDetermined ==
  phase = "done" =>
    /\ Reported = { n \in Candidates : ~ Excused(n) }
    /\ \A i, j \in 1 .. Len(diagnostics) :
         i < j /\ FuncOf(diagnostics[i]) = FuncOf(diagnostics[j])
         => diagnostics[i] < diagnostics[j]

(* m may run after n: it comes later, not in the other branch of an `if`   *)
(* around both and not beyond the return that ends a block around n.       *)
RunsAfter(n, m) ==
  /\ m > n
  /\ \A i \in Nodes(file) :
       Kind(i) = "if" =>
         ~ (\E b \in Branches(i) : Encloses(file, b, n) /\ ~ InElse(i, n)) \/ ~ InElse(i, m)
  /\ \A b \in Nodes(file) :
       Kind(b) = "block" /\ EndsWithReturn(b) /\ Encloses(file, b, n) => Encloses(file, b, m)

(* Silent for no other reason than being the last call. *)
SilentAsLast ==
  { n \in Candidates \ Reported :
      ~ (InIfCond(n) \/ InBoolExpr(n) \/ NextToNoError(n) \/ CallInSomeCondition(n)) }

InThen(n) ==
  ParentIf(n) = 0 \/ \E b \in Branches(ParentIf(n)) : Encloses(file, b, n) /\ ~ InElse(ParentIf(n), n)

(* "Skip assertion if this is the last operation in the test": away from   *)
(* else branches, conditions and blocks that end with a return, no call of *)
(* the function can run after an assertion that is let off as the last.    *)
LastIsLast ==
  phase = "done" =>
    \A n \in SilentAsLast : InThen(n) /\ ~ EndsWithReturn(ParentBlock(n)) =>
      \A m \in SameFunc(n) : ~ RunsAfter(n, m)

(* The same without the exceptions: "the last assertion in the block, if   *)
(* there are no methods/functions calls after it".                         *)
NothingRunsAfterLast ==
  phase = "done" => \A n \in SilentAsLast : \A m \in SameFunc(n) : ~ RunsAfter(n, m)
=============================================================================
