------------------------------ MODULE MCParts ------------------------------
(***************************************************************************)
(* Parts that share no state, for TLC: a behaviour looks at one of them,   *)
(* the others stay as they are.                                            *)
(*                                                                         *)
(* Selector: expressions are built as trees, written out with brackets in  *)
(* either notation, parsed by TriggerSelection, and asked about every      *)
(* combination of passed paths.  Quantity: one monitored quantity of each  *)
(* kind that the collections tell apart.  Message: one of each kind, in up *)
(* to two fragments, with all that may be wrong with it.  Configuration:   *)
(* parameters are set while runs come and go.                              *)
(***************************************************************************)
EXTENDS TriggerSelection, Statistics, EventData, Configuration

CONSTANTS s1, s2, c1, c2

VARIABLES
  part,         \* the part that is looked at
  expression,   \* what is meant
  symbols,      \* written with && and || rather than .and. and .or.
  list,         \* the SelectEvents beside it
  selector,     \* what becomes of it when the INIT message comes
  passed        \* the paths that the event has passed

ofSelector == <<expression, symbols, list, selector, passed>>
partsVars == <<part, ofSelector, vars, dataVars, configVars>>

-----------------------------------------------------------------------------
(* Trigger selections.                                                     *)

MCPaths == {<<"a">>, <<"b">>}

Tree(op, kids) == [op |-> op, kids |-> kids]
Not(t) == Tree("NOT", <<t>>)
Bracket(t) == Tree("BR", <<t>>)

Atoms == {Leaf(p) : p \in MCPaths}
Pair(x, y) == {Bracket(Tree(op, <<x, y>>)) : op \in {"AND", "OR"}}
Brackets == Pair(Leaf(<<"a">>), Leaf(<<"b">>))
Units == Atoms \cup Brackets \cup {Not(x) : x \in Brackets}
               \cup Pair(Leaf(<<"a">>), Not(Leaf(<<"b">>)))
Operands(S) == {<<x, y>> : x, y \in S} \cup {<<x, y, z>> : x, y, z \in S}
Ands == {Tree("AND", <<x, y>>) : x \in Units, y \in Atoms \cup Brackets}
Expressions ==
  Units \cup {Tree("AND", k) : k \in Operands(Units)} \cup {Tree("OR", k) : k \in Operands(Units)}
        \cup {Tree("OR", <<x, y>>) : x, y \in Units \cup Ands}

Symbol(op) == CASE op = "AND" -> <<"&", "&">> [] op = "OR" -> <<"|", "|">>
Word(op) == CASE op = "AND" -> <<".", "and", ".">> [] op = "OR" -> <<" ", "or", " ">>

RECURSIVE Written(_, _)
Written(t, withSymbols) ==
  LET Kid(n) == Written(t.kids[n], withSymbols)
      operator == IF withSymbols THEN Symbol(t.op) ELSE Word(t.op)
  IN CASE t.op = "bit" -> t.kids[1]
       [] t.op = "NOT" -> <<"!">> \o Kid(1)
       [] t.op = "BR" -> <<"(">> \o Kid(1) \o <<")">>
       [] OTHER -> FoldLeft(LAMBDA text, n : text \o operator \o Kid(n), Kid(1),
                            [n \in 1 .. Len(t.kids) - 1 |-> n + 1])

Text == Written(expression, symbols)

AnyExpression ==
  /\ expression \in Expressions /\ symbols \in BOOLEAN
  /\ list \in {{}, {<<"a">>}}
  /\ list # {} => symbols /\ expression \notin Units
NoExpression == expression = Leaf(<<"a">>) /\ symbols = TRUE /\ list = {}

NextEvent ==
  /\ part = "selector" /\ passed' \in SUBSET MCPaths
  /\ UNCHANGED <<part, expression, symbols, list, selector, vars, dataVars, configVars>>

(***************************************************************************)
(* An expression selects the events it means, if the operators inside its  *)
(* brackets cannot be taken for those outside: the brackets are all closed *)
(* at the end, or there is one pair at the beginning.  Brackets in between *)
(* are misread: BracketsAreCounted does not hold.                          *)
(***************************************************************************)
ClosedAtEnd(s) == \A m, n \in DOMAIN s : s[m] = ")" /\ m < n => s[n] = ")"
OnePairAtStart(s) ==
  /\ s[1] = "("
  /\ Cardinality({n \in DOMAIN s : s[n] = "("}) = 1

Means == IF returnStatus(expression, passed) THEN "yes" ELSE "no"

SelectsAsWritten ==
  ClosedAtEnd(Text) \/ OnePairAtStart(Text) =>
    /\ streamAccepts(selector, passed) = Means
    /\ consumerAccepts(selector, passed) = Means

\* "counting check of brackets from last position to operator": brackets anywhere.
BracketsAreCounted == streamAccepts(selector, passed) = Means

-----------------------------------------------------------------------------
(* Monitored quantities: one of each kind, a published one if there is one. *)

Kind(q) ==
  LET c == q.of n == q.name
  IN [calculated |-> n \in Calculated(c), derived |-> n \in Derived(c), reset |-> n \in Reset(c),
      cleared |-> c \in Cleared, mutex |-> Mutexed(c), ownThread |-> ByFragmentProcessor(c, n),
      ofConsumers |-> c \in {"consumer", "allConsumers"},
      queried |-> c \in {"streams", "streamRecord"}]
OfKind(k) == {q \in Quantities : Kind(q) = k}
MCObserved ==
  {CHOOSE q \in OfKind(k) :
      (\E p \in OfKind(k) : p.name \in Published(p.of)) => q.name \in Published(q.of)
     : k \in {Kind(q) : q \in Quantities}}

Quantity == part = "quantity" /\ UNCHANGED <<part, ofSelector, dataVars, configVars>>

-----------------------------------------------------------------------------
(* Messages.                                                               *)

MCMessages ==
  {m \in [kind : Kinds, parts : 1 .. 2, headerIn : 1 .. 2, large : BOOLEAN,
          damaged : SUBSET {"initial", "secondary"}, checksum : {"right", "wrong", "none"},
          run : {"ours", "other"}, skipped : {1}] : Sendable(m)}

Message == part = "message" /\ UNCHANGED <<part, ofSelector, vars, configVars>>

-----------------------------------------------------------------------------
(* Parameters.                                                             *)

Parameters == part = "configuration" /\ UNCHANGED <<part, ofSelector, vars, dataVars>>

-----------------------------------------------------------------------------
PartsInit ==
  /\ part \in {"selector", "quantity", "message", "configuration"}
  /\ IF part = "quantity" THEN which \in Observed ELSE which = CHOOSE q \in Observed : TRUE
  /\ IF part = "message" THEN message \in Messages ELSE message = CHOOSE m \in Messages : TRUE
  /\ Init /\ DataInit /\ ConfigInit
  /\ IF part = "selector" THEN AnyExpression ELSE NoExpression
  /\ selector = TriggerSelector(Text, list) /\ passed = {}

PartsNext ==
  NextEvent \/ (Quantity /\ Next) \/ (Message /\ DataNext) \/ (Parameters /\ ConfigNext)

PartsSpec ==
  /\ PartsInit /\ [][PartsNext]_partsVars
  /\ WF_partsVars(Quantity /\ Elapse) /\ WF_partsVars(Quantity /\ Ripen)
  /\ WF_partsVars(Quantity /\ Reporter)
  /\ WF_partsVars(Quantity /\ EndQuery) /\ WF_partsVars(Quantity /\ BeginOfRun)
=============================================================================
