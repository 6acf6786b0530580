--------------------------- MODULE FormatStrings ---------------------------
(***************************************************************************)
(* Format strings as sequences of tokens, and what a format asks of the    *)
(* arguments after it, read off its directives without any scanning.       *)
(***************************************************************************)
EXTENDS Naturals, SequencesExt

(* A directive, field by field; "" is a part that is not there.            *)
(*   "[1]"  explicit index of an argument      "[?]"  malformed one        *)
(*   "["    index without closing bracket      "9"    digits               *)
(* An index right after the dot is the precision's.                        *)
(* A verb of "" is a format that ends before its verb.                     *)
IndexTokens == <<"[1]", "[2]", "[3]">>
Brackets == ToSet(IndexTokens) \cup {"[?]", "["}
Flags == {"#", "0", "+", "-", " "}

(* Any text may be a verb; the check has rules of its own for these.       *)
SpecialVerbs == {"", "%", "v", "w"}

Parts ==
  [flag : Flags \cup {""}, index : Brackets \cup {""}, width : {"", "9", "*"},
   dot : {"", "."}, dotIndex : Brackets \cup {""}, dotNum : {"", "9", "*"},
   verbIndex : Brackets \cup {""}, verb : SpecialVerbs \cup STRING]

Part(p) == IF p = "" THEN <<>> ELSE <<p>>

(* Every directive comes after some text. *)
Tokens(d) ==
  <<"~", "%">> \o Part(d.flag) \o Part(d.index) \o Part(d.width)
    \o Part(d.dot) \o Part(d.dotIndex) \o Part(d.dotNum) \o Part(d.verbIndex) \o Part(d.verb)

Latest(older, newer) == IF newer # "" THEN newer ELSE older

(* The index that a width or precision of `*` has not taken when the verb  *)
(* is reached.  A second one after it is no index: its bracket is the verb.*)
Pending(d) ==
  Latest(IF d.width = "*" \/ d.dotNum = "*" THEN "" ELSE d.index,
         IF d.dotNum = "*" THEN "" ELSE d.dotIndex)
VerbOf(d) == IF Pending(d) # "" /\ d.verbIndex # "" THEN d.verbIndex ELSE d.verb

(* Each text is written in one way: the part before which an index is      *)
(* found takes it, and what can be another part is no verb.                *)
Directives ==
  { d \in Parts :
      /\ d.dot = "" => d.dotIndex = "" /\ d.dotNum = ""
      /\ d.verbIndex # "" =>
           IF d.dot = "." THEN d.dotIndex # "" \/ d.dotNum # "" ELSE d.index # "" \/ d.width # ""
      /\ d.verb \notin Flags \cup Brackets \cup {"9", "*", "."}
      /\ VerbOf(d) = d.verb \/ d.verb # "%" }

(* Only at the end of a format can a verb be missing. *)
IsFormat(ds) ==
  ds \in Seq(Directives) /\ \A k \in DOMAIN ds : VerbOf(ds[k]) = "" => k = Len(ds)

Render(ds) == FlattenSeq([k \in DOMAIN ds |-> Tokens(ds[k])])

IndexOf(t) == IF t \in ToSet(IndexTokens) THEN CHOOSE k \in DOMAIN IndexTokens : IndexTokens[k] = t ELSE 0

(* The verbs fmt knows, with their flags; those that print strings. *)
AllFlags == Flags \cup {"."}
PrintVerbs ==
  [v \in {"b", "e", "E", "f", "F", "g", "G", "o", "O", "x", "X", "q", "v", "w"} |-> AllFlags]
    @@ [v \in {"d", "s"} |-> AllFlags \ {"#"}]
    @@ [v \in {"c", "t", "T"} |-> {"-"}]
    @@ [v \in {"p", "U"} |-> {"-", "#"}]
    @@ [v \in {"%"} |-> {}]
StringVerbs == {"x", "X", "q", "v", "s"}
-----------------------------------------------------------------------------
(* What a directive reads, in order: a width, a precision, the value.  An  *)
(* index belongs to the next of these.                                     *)
Items(d) ==
  (IF d.width = "*" THEN <<d.index>> ELSE <<>>) \o
  (IF d.dotNum = "*" THEN <<Latest(IF d.width = "*" THEN "" ELSE d.index, d.dotIndex)>>
   ELSE <<>>) \o
  (IF VerbOf(d) \in {"%", ""} THEN <<>>
   ELSE <<IF Pending(d) # "" THEN Pending(d) ELSE d.verbIndex>>)

(* An item reads the argument of its index, or the one after the argument  *)
(* that the item before it read.                                           *)
Reads(items) ==
  LET arg[k \in 0 .. Len(items)] ==
        IF k = 0 THEN 0
        ELSE IF items[k] # "" THEN IndexOf(items[k]) ELSE arg[k - 1] + 1
  IN  [k \in DOMAIN items |-> arg[k]]

Indexed(d) == {d.index, d.dotIndex, d.verbIndex} # {""}

(* The arguments that directive k of ds reads. *)
ItemsOf(ds, k) == FlattenSeq([j \in 1 .. k |-> Items(ds[j])])
ReadsOf(ds, k) ==
  LET before == IF k = 1 THEN 0 ELSE Len(ItemsOf(ds, k - 1))
  IN  SubSeq(Reads(ItemsOf(ds, k)), before + 1, Len(ItemsOf(ds, k)))
=============================================================================
