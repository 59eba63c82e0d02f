------------------------------ MODULE RegexDfa ------------------------------
(***************************************************************************)
(* The automata of the regex compiler.  regex-automata builds a dense,     *)
(* minimal automaton for each part of a regex; the compiler reads it back  *)
(* from its printed form, numbers its states in breadth-first order, and   *)
(* glues the automata of the parts into one graph, whose nodes are then    *)
(* addressed both by number and by position.                               *)
(*                                                                         *)
(* A printed automaton is [start, eoi, edges]: the states with a           *)
(* transition on the end of the input, and the transitions                 *)
(* <<from, bytes, to>>, one per printed label.  The parsing of the text is *)
(* left out, and so is the order of its labels: some order is taken.       *)
(***************************************************************************)
EXTENDS Integers, SequencesExt

StartByte == 255   \* stands before the message, so that ^ has a byte to match

NoEdges == <<>>
Node(id, accept, edges) == [id |-> id, accept |-> accept, edges |-> edges]

-----------------------------------------------------------------------------
\* A printed automaton has finitely many labels, none of them empty or with
\* the start byte, and a byte leads from a state to one other state at most.
IsDeterministic(edges) ==
  \A e, f \in edges : e[1] = f[1] /\ e[2] \cap f[2] # {} => e = f
Bytes == SUBSET (0 .. StartByte - 1) \ {{}}
Automaton ==
  {d \in [start : Int, eoi : SUBSET Int, edges : SUBSET (Int \X Bytes \X Int)] :
     IsFiniteSet(d.edges) /\ IsDeterministic(d.edges)}

Leaving(d, s) == {e \in d.edges : e[1] = s}

\* The destinations of a state of a printed automaton, label by label.
Destinations(d, s) ==
  LET labels == SetToSeq(Leaving(d, s))
  IN [k \in DOMAIN labels |-> labels[k][3]]

\* One turn of the breadth-first search, which idles when its queue is empty.
Visit(d, search) ==
  LET queue == search.queue
      visited == search.visited
      s == Head(queue)
  IN IF queue = <<>> THEN search
     ELSE IF Contains(visited, s) THEN [queue |-> Tail(queue), visited |-> visited]
     ELSE [queue |-> Tail(queue) \o Destinations(d, s), visited |-> Append(visited, s)]

\* The reachable states in breadth-first order: every transition puts one
\* state into the queue at most, which bounds the number of turns.
SearchBegin(d) == [queue |-> <<d.start>>, visited |-> <<>>]
Search(d) ==
  LET search[n \in Nat] ==
        IF n = 0 THEN SearchBegin(d) ELSE Visit(d, search[n - 1])
  IN search
BreadthFirst(d) == Search(d)[Cardinality(d.edges) + 1].visited

\* A transition on the end of the input makes its source accepting.
AcceptStates(d) == d.eoi

\* Labels to one destination are united; number renames the destinations.
ProcessStateEdges(d, s, number) ==
  LET leaving == Leaving(d, s) IN
  [k \in {number[e[3]] : e \in leaving} |->
     UNION {e[2] : e \in {x \in leaving : number[x[3]] = k}}]

\* A state's number is its position in the breadth-first order.
ConvertDfaToGraph(d) ==
  LET order == BreadthFirst(d)
      number == [s \in ToSet(order) |-> (CHOOSE k \in DOMAIN order : order[k] = s) - 1]
  IN [k \in DOMAIN order |->
        Node(k - 1, order[k] \in AcceptStates(d), ProcessStateEdges(d, order[k], number))]

AcceptNodes(g) == {k \in DOMAIN g : g[k].accept}

-----------------------------------------------------------------------------
CaretGraph == <<Node(0, FALSE, [k \in {1} |-> {StartByte}]),
                Node(1, TRUE, NoEdges)>>

\* (^|...): the start byte leads to the first accepting state.
CanModifyForCaret(g) == AcceptNodes(g) \ {1} # {}
ModifyGraphForCaretOnly(g) ==
  LET to == g[Min(AcceptNodes(g) \ {1})].id IN
  [g EXCEPT ![1].edges = (to :> {StartByte}) @@ g[1].edges]
ModifyGraphForCaret(g) ==
  LET to == g[Min(AcceptNodes(g) \ {1})].id
      old == g[1].edges
  IN [g EXCEPT ![1] =
        Node(0, FALSE,
             [k \in DOMAIN old \cup {to} |->
                (IF k \in DOMAIN old THEN old[k] ELSE {})
                \cup (IF k = to THEN {StartByte} ELSE {})])]

\* Numbers from base on; the first state gets the number base itself, which
\* is taken already unless nothing was added yet.
RenameFromNext(g, base) ==
  [k \in DOMAIN g |->
     Node(base + k, g[k].accept,
          [j \in {base + 1 + i : i \in DOMAIN g[k].edges} |->
             g[k].edges[j - base - 1]])]
RenameStates(g, base) ==
  [k \in DOMAIN g |->
     Node(base + k - 1, g[k].accept,
          [j \in {base + i : i \in DOMAIN g[k].edges} |->
             g[k].edges[j - base]])]

MaxStateIndex(g) == IF g = <<>> THEN 0 ELSE Max({g[k].id : k \in DOMAIN g})

-----------------------------------------------------------------------------
\* The transitions of a public part.  The number that the part's start shares
\* with the last state so far is replaced by the accepting states so far.
AllEdges(g) == UNION {{<<g[k].id, t>> : t \in DOMAIN g[k].edges} : k \in DOMAIN g}
PublicEdges(net, g, base) ==
  LET ids == {net[k].id : k \in AcceptNodes(net)}
      Ends(i) == IF i = base /\ base # 0 THEN ids ELSE {i}
  IN UNION {Ends(e[1]) \X Ends(e[2]) : e \in AllEdges(g)}

\* The edges of the accepting state are kept where they do not conflict: a
\* byte that the new part reads is taken from the old edges, and an edge to
\* a destination of the new part replaces the old one to it.
MergeAllEdges(target, source) ==
  [t \in DOMAIN target \cup DOMAIN source |->
     IF t \in DOMAIN source THEN source[t] ELSE target[t]]
MergeEdges(target, source) ==
  LET taken == UNION {source[t] : t \in DOMAIN source} IN
  [t \in DOMAIN target \cup DOMAIN source |->
     IF t \in DOMAIN source THEN source[t] ELSE target[t] \ taken]

ProcessAcceptState(node, start) ==
  Node(node.id, start.accept, MergeEdges(node.edges, start.edges))

\* Every accepting state takes over the edges of the new part's start, and
\* the other states of the part follow.
AddDfa(net, g) ==
  IF net = <<>> THEN g
  ELSE [k \in DOMAIN net |->
          IF net[k].accept THEN ProcessAcceptState(net[k], g[1]) ELSE net[k]]
       \o Tail(g)

-----------------------------------------------------------------------------
\* Runs of consecutive bytes that span at least minSpan become range checks,
\* the other bytes equality checks.
OptimizeCharRanges(bytes, minSpan) ==
  LET runs == {r \in bytes \X bytes :
                 /\ r[1] .. r[2] \subseteq bytes
                 /\ r[1] - 1 \notin bytes
                 /\ r[2] + 1 \notin bytes
                 /\ r[2] - r[1] >= minSpan}
  IN [ranges |-> runs,
      vals |-> {b \in bytes : \A r \in runs : b \notin r[1] .. r[2]}]

-----------------------------------------------------------------------------
\* The reference: the words of a printed automaton, and where a word of the
\* automaton that starts after position i of the input may end.
Successors(d, S, b) == {e[3] : e \in {x \in d.edges : x[1] \in S /\ b \in x[2]}}
Runs(d, word) ==
  LET run[n \in Nat] ==
        IF n = 0 THEN {d.start} ELSE Successors(d, run[n - 1], word[n])
  IN run
RunFrom(d, word) == Runs(d, word)[Len(word)]
Accepts(d, word) == RunFrom(d, word) \cap d.eoi # {}
EndsOf(d, input, i) ==
  {j \in i .. Len(input) : Accepts(d, SubSeq(input, i + 1, j))}
EndsAfter(ds, input, i) ==
  LET ends[n \in Nat] ==
        IF n = 0 THEN {i} ELSE UNION {EndsOf(ds[n], input, k) : k \in ends[n - 1]}
  IN ends
EndsOfAll(ds, input, i) == EndsAfter(ds, input, i)[Len(ds)]


=============================================================================
