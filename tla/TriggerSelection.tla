-------------------------- MODULE TriggerSelection --------------------------
(***************************************************************************)
(* The trigger selections of streams and consumers: expressions over the   *)
(* names of the trigger paths with ||, &&, ! and brackets, parsed into a   *)
(* tree when the INIT message comes and evaluated for every event.         *)
(*                                                                         *)
(* A string is a sequence of characters; the words "and" and "or" are one  *)
(* character each, and so is a name.  A name that contains one of the two  *)
(* letters in its middle is left out: the code takes them for the operator *)
(* there as well, with the letter on either side, and the text is another. *)
(***************************************************************************)
EXTENDS Integers, Sequences, FiniteSets, SequencesExt

CONSTANT Paths   \* the names of the trigger paths, one bit each

ASSUME PathAssumption == Paths # {} /\ \A p \in Paths : p \in Seq(STRING) /\ p # <<>>

Error == [op |-> "error", kids |-> <<>>]
Leaf(path) == [op |-> "bit", kids |-> <<path>>]
Node(op, kids) ==
  IF \E i \in DOMAIN kids : kids[i] = Error THEN Error ELSE [op |-> op, kids |-> kids]

LeastOf(m, n) == IF m < n THEN m ELSE n

\* The first n >= from at which the operator stands, or 0.
Find(s, operator, from) ==
  LET at == {n \in from .. Len(s) - 1 : s[n] = operator /\ s[n + 1] = operator}
  IN IF at = {} THEN 0 ELSE CHOOSE n \in at : \A m \in at : n <= m

trim(s) ==
  LET letters == {n \in DOMAIN s : s[n] # " "}
  IN IF letters = {} THEN s
     ELSE SubSeq(s, CHOOSE n \in letters : \A m \in letters : n <= m,
                    CHOOSE n \in letters : \A m \in letters : n >= m)

\* A mutant of Open: brackets that are closed are not counted.
OpenBug(s, from, to) == Cardinality({n \in from .. to : s[n] = "("})

\* How many brackets are open at the end of s[from .. to].
Open(s, from, to) ==
  Cardinality({n \in from .. to : s[n] = "("}) - Cardinality({n \in from .. to : s[n] = ")"})
NeverNegative(s, from, to) == \A n \in from .. to : Open(s, from, n) >= 0

(***************************************************************************)
(* Cuts s at an operator, from position offset on; parts are the operands  *)
(* found so far.  <<"error">> stands for the exception.  When the operator *)
(* is inside brackets the code goes to the first operator after them, does *)
(* not look at the brackets before that one, and takes as operand as many  *)
(* characters from offset on as there are up to it from the beginning.     *)
(***************************************************************************)
RECURSIVE Split(_, _, _, _)
Split(s, operator, offset, parts) ==
  LET rest == SubSeq(s, offset, Len(s))
      here == Find(s, operator, offset)
      closed == {k \in here + 2 .. Len(s) : Open(s, offset, k - 1) = 0}
      k == CHOOSE n \in closed : \A m \in closed : n <= m
      next == Find(s, operator, k)
      asFound == IF parts = <<>> THEN <<>> ELSE Append(parts, rest)
  IN CASE here = 0 -> asFound
       [] here = 1 \/ here + 2 > Len(s) -> <<"error">>
       [] ~NeverNegative(s, offset, here - 1) -> <<"error">>
       [] Open(s, offset, here - 1) = 0 ->
            Split(s, operator, here + 2, Append(parts, SubSeq(s, offset, here - 1)))
       [] closed = {} -> IF Open(s, offset, Len(s)) # 0 THEN <<"error">> ELSE asFound
       [] next = 0 -> asFound
       [] next + 2 > Len(s) -> <<"error">>
       [] OTHER ->
            Split(s, operator, next + 2,
                  Append(parts, SubSeq(s, offset, LeastOf(Len(s), offset + next - 2))))

\* edm::regexMatch, external: a name matches itself, the wildcard every name.
regexMatch(s) == IF s = <<"*">> THEN Paths ELSE Paths \cap {s}

\* A single path or a wildcard, that must match something when it is marked with @.
Trigger(s) ==
  LET marks == {n \in DOMAIN s : s[n] = "@"}
      name == IF marks = {} THEN s
              ELSE SubSeq(s, 1, (CHOOSE n \in marks : \A m \in marks : n <= m) - 1)
      found == regexMatch(name)
  IN CASE found = {} /\ marks # {} -> Error
       [] Cardinality(found) = 1 -> Leaf(CHOOSE p \in found : TRUE)
       [] OTHER -> Node("OR", SetToSeq({Leaf(p) : p \in found}))

RECURSIVE TreeElement(_)
TreeElement(input) ==
  LET s == trim(input)
      ors == Split(s, "|", 1, <<>>)
      ands == Split(s, "&", 1, <<>>)
      Kids(parts) == [n \in DOMAIN parts |-> TreeElement(parts[n])]
      left == {n \in DOMAIN s : s[n] = "("}
      right == {n \in DOMAIN s : s[n] = ")"}
  IN CASE s = <<>> \/ ors = <<"error">> -> Error
       [] ors # <<>> -> Node("OR", Kids(ors))
       [] ands = <<"error">> -> Error
       [] ands # <<>> -> Node("AND", Kids(ands))
       [] s[1] = "!" -> Node("NOT", <<TreeElement(Tail(s))>>)
       [] left \cup right = {} -> Trigger(s)
       [] 1 \in left /\ Len(s) \in right -> Node("BR", <<TreeElement(SubSeq(s, 2, Len(s) - 1))>>)
       [] OTHER -> Error

RECURSIVE returnStatus(_, _)
returnStatus(t, passed) ==
  CASE t.op = "bit" -> t.kids[1] \in passed
    [] t.op = "NOT" -> ~returnStatus(t.kids[1], passed)
    [] t.op = "BR" -> returnStatus(t.kids[1], passed)
    [] t.op = "AND" -> \A n \in DOMAIN t.kids : returnStatus(t.kids[n], passed)
    [] t.op = "OR" -> \E n \in DOMAIN t.kids : returnStatus(t.kids[n], passed)

\* regex_replace of ".word.": the dots stand for any character, and take it away.
RECURSIVE Replaced(_, _, _)
Replaced(s, word, operator) ==
  LET at == {n \in 2 .. Len(s) - 1 : s[n] = word}
      n == CHOOSE i \in at : \A j \in at : i <= j
  IN IF at = {} THEN s
     ELSE SubSeq(s, 1, n - 2) \o <<operator, operator>>
            \o Replaced(SubSeq(s, n + 2, Len(s)), word, operator)

AlternateOperators(s) == Replaced(Replaced(s, "and", "&"), "or", "|")

(***************************************************************************)
(* The selector of a stream or consumer with a TriggerSelector text and a  *)
(* SelectEvents list (here a set of names, wanted if any of them passed,   *)
(* for edm::EventSelector is external and throws for unknown names).  The  *)
(* exceptions of both are swallowed, and what is left accepts every event. *)
(***************************************************************************)
TriggerSelector(text, selectEvents) ==
  LET tree == TreeElement(AlternateOperators(trim(text)))
      textUsed == trim(text) # <<>> /\ tree # Error
      listUsed == selectEvents # {} /\ ~textUsed
  IN [useOld |-> listUsed,
      acceptAll |-> IF textUsed THEN trim(text) = <<"*">>
                    ELSE ~(listUsed /\ selectEvents \subseteq Paths),
      tree |-> IF textUsed THEN tree ELSE Error,
      list |-> IF listUsed /\ selectEvents \subseteq Paths THEN selectEvents ELSE {}]

\* A list that edm::EventSelector refused leaves no selector behind to ask.
acceptEvent(sel, passed) ==
  CASE sel.useOld -> IF sel.list = {} THEN "undefined"
                     ELSE IF sel.list \cap passed # {} THEN "yes" ELSE "no"
    [] OTHER -> IF sel.acceptAll \/ returnStatus(sel.tree, passed) THEN "yes" ELSE "no"

\* A stream asks acceptEvent, a consumer asks wantAll first.
streamAccepts(sel, passed) == acceptEvent(sel, passed)
consumerAccepts(sel, passed) == IF sel.acceptAll THEN "yes" ELSE acceptEvent(sel, passed)
=============================================================================
