---------------------------- MODULE RegexCircuit ----------------------------
(***************************************************************************)
(* From a decomposed regex to the circuit that matches it: the compiler    *)
(* adds one part after the other to the graph, writes the circuit, and the *)
(* circuit is evaluated here on a message, one row of state signals per    *)
(* byte.  The reuse of gates is left out.                                  *)
(*                                                                         *)
(* A part is [caret, group, dfa, dollar, public]: whether its text starts  *)
(* with ^ or with a group (^|...), the automaton of that group, the        *)
(* automaton of the rest, and whether it ends with $.                      *)
(***************************************************************************)
EXTENDS RegexDfa

CONSTANTS
  MsgBytes,   \* the length of the message, msg_bytes
  Byte,       \* the bytes a message is made of
  MinSpan,    \* the span from which consecutive bytes are a range check
  GenSubstrs  \* is the logic that reveals substrings generated?

ASSUME MsgBytesAssumption == MsgBytes \in Nat \ {0}
ASSUME ByteAssumption == Byte \subseteq 0 .. 255
ASSUME MinSpanAssumption == MinSpan \in Nat

VARIABLES
  config,  \* the decomposed regex
  parts,   \* its parts once the caret is split off
  next,    \* the part to compile next
  net,     \* net_dfa_graph
  ranges,  \* substring_ranges, one set of edges per public part
  stage,   \* what the compiler or the circuit does next
  msg,     \* the input signals
  rows,    \* rows[i + 1]: the states other than 0 with states[i][s] = 1
  zero,    \* zero[i + 1]: from_zero_enabled[i]
  out,     \* the output signal
  reveal   \* reveal[k]: the positions revealed for public part k

compiled == <<config, parts, next, net, ranges>>
signals == <<msg, rows, zero, out, reveal>>
circuitVars == <<compiled, stage, signals>>

NumBytes == MsgBytes + 1
Message == [1 .. MsgBytes -> Byte]
NoMessage == <<>>

CircuitInit ==
  /\ config = <<>>
  /\ parts = <<>>
  /\ next = 1
  /\ net = <<>>
  /\ ranges = <<>>
  /\ stage = "idle"
  /\ msg = NoMessage
  /\ rows = <<{}>>
  /\ zero = <<>>
  /\ out = 0
  /\ reveal = <<>>

\* The compiler is called for a regex; a message given before stays.
Compile(c) ==
  /\ config' = c
  /\ parts' = c
  /\ next' = 1
  /\ net' = <<>>
  /\ ranges' = <<>>
  /\ stage' = "caret"
  /\ rows' = <<{}>>
  /\ zero' = <<>>
  /\ out' = 0
  /\ reveal' = <<>>
  /\ UNCHANGED msg

-----------------------------------------------------------------------------
\* A caret of the first part becomes a part of its own.
ProcessCaret ==
  /\ stage = "caret"
  /\ LET c == config[1] IN
     parts' = IF c.caret = "none" THEN config
              ELSE <<[c EXCEPT !.dfa = c.group, !.dollar = FALSE, !.public = FALSE]>>
                   \o [config EXCEPT ![1].caret = "none"]
  /\ stage' = "parts"
  /\ UNCHANGED <<config, next, net, ranges, signals>>

\* The graph of part k before its states are renumbered: only the first part
\* has a caret to handle.
PartGraph(k) ==
  LET g == ConvertDfaToGraph(parts[k].dfa) IN
  IF k # 1 \/ parts[1].caret = "none" THEN g
  ELSE IF parts[1].caret = "bare" THEN CaretGraph
  ELSE ModifyGraphForCaret(g)

PartFails(k) ==
  \/ parts[k].dollar /\ k # Len(parts)
  \/ /\ k = 1
     /\ parts[1].caret = "group"
     /\ ~ CanModifyForCaret(ConvertDfaToGraph(parts[1].dfa))

CompilePart ==
  /\ stage = "parts"
  /\ next <= Len(parts)
  /\ IF PartFails(next)
     THEN /\ stage' = "error"
          /\ UNCHANGED <<next, net, ranges>>
     ELSE LET base == MaxStateIndex(net)
              g == RenameStates(PartGraph(next), base)
          IN /\ ranges' = IF parts[next].public
                          THEN Append(ranges, PublicEdges(net, g, base))
                          ELSE ranges
             /\ net' = AddDfa(net, g)
             /\ next' = next + 1
             /\ UNCHANGED stage
  /\ UNCHANGED <<config, parts, signals>>

-----------------------------------------------------------------------------
\* The zero byte is padding and matches nothing.
Readable(bytes) == bytes \ {0}

\* The output of the checks for the bytes of a transition.
BytesMatch(bytes, b) ==
  LET checks == OptimizeCharRanges(Readable(bytes), MinSpan) IN
  \/ b \in checks.vals
  \/ \E r \in checks.ranges : r[1] <= b /\ b <= r[2]

\* rev_graph: the transitions into state s, as <<from, bytes>>.  Sources are
\* positions and destinations are numbers.
Into(s) == {<<k - 1, net[k].edges[s]>> : k \in {j \in DOMAIN net : s \in DOMAIN net[j].edges}}
NonZero == 1 .. Len(net) - 1

\* An AND gate needs both of its inputs, and a gate over no states at all
\* cannot be instantiated.
Instantiable ==
  /\ NonZero # {}
  /\ \A s \in NonZero : \A e \in Into(s) : Readable(e[2]) # {}

HasDollar == parts[Len(parts)].dollar

\* The circuit is written and gets a message: it accepts none with a byte
\* that could stand for the start.
InRange(m) == \A i \in DOMAIN m : m[i] < StartByte
GenerateCircuit ==
  /\ stage = "parts"
  /\ next > Len(parts)
  /\ IF AcceptNodes(net) = {} \/ ~ Instantiable
     THEN stage' = "error" /\ UNCHANGED msg
     ELSE /\ msg' \in IF msg = NoMessage THEN Message ELSE {msg}
          /\ stage' = IF InRange(msg') THEN "bytes" ELSE "unsatisfied"
  /\ UNCHANGED <<compiled, rows, zero, out, reveal>>

In == <<StartByte>> \o msg

\* states[i]: state 0 is always on, except after the last byte, where it is
\* left unassigned and read as 0.
States(i) == rows[i + 1] \cup (IF i < NumBytes THEN {0} ELSE {})

\* The states reached from active ones other than 0.
Continued(active, b) ==
  {s \in NonZero : \E e \in Into(s) : e[1] \in active \ {0} /\ BytesMatch(e[2], b)}
\* The states reached from state 0.
Started(b) == {s \in NonZero : \E e \in Into(s) : e[1] = 0 /\ BytesMatch(e[2], b)}

\* Variant: the byte on which a match is lost starts no other one.
ReadByteAfterLoss ==
  LET i == Len(rows) - 1
      b == In[i + 1]
      continued == Continued(States(i), b)
  IN /\ stage = "bytes"
     /\ i < NumBytes
     /\ zero' = Append(zero, IF continued = {} THEN 1 ELSE 0)
     /\ rows' = Append(rows, continued \cup
                  IF rows[i + 1] = {} THEN Started(b) ELSE {})
     /\ UNCHANGED <<compiled, stage, msg, out, reveal>>

\* One row: state 0 starts a match only if no other state is left.
ReadByte ==
  LET i == Len(rows) - 1
      b == In[i + 1]
      continued == Continued(States(i), b)
  IN /\ stage = "bytes"
     /\ i < NumBytes
     /\ zero' = Append(zero, IF continued = {} THEN 1 ELSE 0)
     /\ rows' = Append(rows, continued \cup
                  IF continued = {} THEN Started(b) ELSE {})
     /\ UNCHANGED <<compiled, stage, msg, out, reveal>>

-----------------------------------------------------------------------------
\* accepted_state[i]: one of the accepting states is on.
Accepted(i) == \E k \in AcceptNodes(net) : net[k].id \in States(i)

\* padding_start: the number of bytes that are not padding.
PaddingStartOfMessage == Cardinality({i \in DOMAIN msg : msg[i] # 0})
PaddingStart == Cardinality({i \in DOMAIN In : In[i] # 0})

IsAccepted == \E i \in 0 .. NumBytes : Accepted(i)
EndAnchorCheck == \E i \in 0 .. NumBytes - 1 : i = PaddingStart /\ Accepted(i)
Out == IF IsAccepted /\ (HasDollar => EndAnchorCheck) THEN 1 ELSE 0

\* from_zero_enabled[i]; the one after the last byte is 0.
FromZero(i) == i < NumBytes /\ zero[i + 1] = 1
StateChanged(i) == rows[i + 2] # {}

\* Variant: an accepting state is looked up one row too early.
ConsecutiveShifted ==
  LET c[j \in 0 .. MsgBytes] ==
        IF j = MsgBytes THEN FALSE
        ELSE /\ Accepted(j + 1) \/ c[j + 1]
             /\ StateChanged(j + 1)
             /\ ~ FromZero(j + 2) \/ Accepted(j + 2)
  IN c
\* is_consecutive, from the last byte backwards: the run that is on after
\* byte j goes on to an accepting state, without a new start.
Consecutive ==
  LET c[j \in 0 .. MsgBytes] ==
        IF j = MsgBytes THEN FALSE
        ELSE /\ Accepted(j + 2) \/ c[j + 1]
             /\ StateChanged(j + 1)
             /\ ~ FromZero(j + 2) \/ Accepted(j + 2)
  IN c

\* The byte in[i + 1] is read along a public transition.
IsSubstr(edges, i) ==
  \E e \in edges :
    /\ e[1] \in States(i + 1)
    /\ (e[1] = 0) = FromZero(i + 1)
    /\ e[2] \in States(i + 2)

\* The message positions, from 0, whose bytes are revealed for public part k.
Revealed(k) ==
  {i \in 0 .. MsgBytes - 1 : Out = 1 /\ IsSubstr(ranges[k], i) /\ Consecutive[i]}

\* The outputs once the last row is there.
Finish ==
  /\ stage = "bytes"
  /\ Len(rows) = NumBytes + 1
  /\ out' = Out
  /\ reveal' = IF GenSubstrs THEN [k \in DOMAIN ranges |-> Revealed(k)] ELSE <<>>
  /\ stage' = "finished"
  /\ UNCHANGED <<compiled, msg, rows, zero>>

CircuitStep ==
  \/ ProcessCaret
  \/ CompilePart
  \/ GenerateCircuit
  \/ ReadByte
  \/ Finish

-----------------------------------------------------------------------------
Finished == stage = "finished"

\* Is the message a text of n bytes followed by padding?
IsText(n) == \A i \in 1 .. MsgBytes : (msg[i] # 0) = (i <= n)
Text(n) == SubSeq(msg, 1, n)
TextLength == Cardinality({i \in DOMAIN msg : msg[i] # 0})

\* The automata of the parts over the bytes with the start byte, as printed.
CaretDfa == [start |-> 0, eoi |-> {1}, edges |-> {<<0, {StartByte}, 1>>}]
GroupDfa(d) ==
  [start |-> -2,
   eoi |-> d.eoi \cup {-1},
   edges |-> d.edges \cup {<<-2, {StartByte}, -1>>}
             \cup {<<-2, e[2], e[3]>> : e \in {x \in d.edges : x[1] = d.start}}]
ReferenceDfa(k) ==
  IF k # 1 \/ parts[1].caret = "none" THEN parts[k].dfa
  ELSE IF parts[1].caret = "bare" THEN CaretDfa ELSE GroupDfa(parts[1].dfa)
References == [k \in DOMAIN parts |-> ReferenceDfa(k)]

\* Gluing is faithful when no run of a part comes back to the part's start
\* (or the part follows a caret alone), and nothing leaves the state that the
\* start byte of a group (^|...) leads to.
ComesBack(d) == \E e \in d.edges : e[3] = d.start
Separable ==
  \A k \in 2 .. Len(parts) :
    /\ ~ ComesBack(parts[k].dfa) \/ (k = 2 /\ parts[1].caret = "bare")
    /\ parts[1].caret = "group" =>
         \A e \in parts[1].dfa.edges : e[1] \notin parts[1].dfa.eoi \ {parts[1].dfa.start}

\* The circuit looks nodes up by number and lists them by position
\* (circom.rs:44): after any number of parts, whose first state is dropped,
\* the two still agree and every edge leads to a node.
NumberedByPosition ==
  \A k \in DOMAIN net :
    /\ net[k].id = k - 1
    /\ \A t \in DOMAIN net[k].edges : t + 1 \in DOMAIN net

\* The glued graph stays deterministic although accepting states take over
\* edges: besides state 0 at most one state is on at a time, so the rows are
\* one run and not several at once.
OneRunAtATime == \A i \in DOMAIN rows : Cardinality(rows[i]) <= 1

\* A regex of one part between ^ and $ is matched exactly: of all messages
\* that do not fill the circuit, also those with padding inside, the circuit
\* accepts the texts of the regex and nothing else.
AnchoredIsExact ==
  /\ Finished
  /\ Len(config) = 1
  /\ config[1].caret = "bare"
  /\ config[1].dollar
  /\ ~ IsText(MsgBytes)
  => (out = 1 <=> \E n \in 0 .. MsgBytes - 1 :
                    IsText(n) /\ Accepts(config[1].dfa, Text(n)))

\* Whatever the parts, their anchors and the padding: the circuit accepts
\* only when some stretch of its input is the concatenation of a word of
\* each part, up to the end of the text if the last part ends with $.
MatchIsSound ==
  Finished /\ Separable /\ out = 1 =>
    \E i \in 0 .. NumBytes : \E j \in EndsOfAll(References, In, i) :
      HasDollar => j = PaddingStart

\* A match that is lost restarts at the very byte it was lost on, and an
\* attempt that goes on for longer hides what could have begun meanwhile.  So
\* words are always found, wherever they are, if an attempt at one has found
\* one after two bytes at most.
ShortWords(d) ==
  \A e \in Leaving(d, d.start) :
    e[3] \in d.eoi \/ \A f \in Leaving(d, e[3]) : f[3] \in d.eoi
ShortWordsAreFound ==
  Finished /\ Len(parts) = 1 /\ parts[1].caret = "none" /\ ~ HasDollar
    /\ ShortWords(parts[1].dfa)
  => ((\E i \in 0 .. MsgBytes : EndsOf(parts[1].dfa, Text(TextLength), i) # {}
         /\ IsText(TextLength)) => out = 1)

\* State 0 is always on.  So a public edge back to it seems to be taken whenever
\* its first state is left, which tells nothing but public bytes if no later
\* part leaves that state; and where state 0 accepts, because the empty word
\* matches, an attempt seems to have led to a match wherever it is lost.
StartIsNoEnd ==
  /\ parts[1].public =>
       \A e \in parts[1].dfa.edges :
         e[3] = parts[1].dfa.start => e[1] \notin parts[1].dfa.eoi
  /\ \E k \in DOMAIN parts : References[k].start \notin References[k].eoi

PublicPart(k) == CHOOSE p \in DOMAIN parts :
  /\ parts[p].public
  /\ Cardinality({q \in 1 .. p : parts[q].public}) = k
\* The stretches that part p reads in a match of the whole regex that
\* ends at one of ends.
Readings(p, ends) ==
  LET before == SubSeq(References, 1, p - 1)
      after == SubSeq(References, p + 1, Len(parts))
  IN {s \in (0 .. NumBytes) \X (0 .. NumBytes) :
        /\ \E i \in 0 .. s[1] : s[1] \in EndsOfAll(before, In, i)
        /\ s[2] \in EndsOf(References[p], In, s[1])
        /\ EndsOfAll(after, In, s[2]) \cap ends # {}}
Reads(stretch, q) == stretch[1] <= q + 1 /\ q + 1 < stretch[2]
MatchEnds == IF HasDollar THEN {PaddingStart} ELSE 0 .. NumBytes

\* What is revealed for a public part was read by that part in a match of the
\* whole regex: the bytes of matches that fail later and of the private parts
\* stay hidden.  The end anchor is no part of this: what matches before the end
\* of the text is revealed too.  And nothing public is dropped: if the circuit
\* accepts, a byte that the part reads in every match is revealed.
RevealsWhatIsPublic ==
  Finished /\ Separable /\ StartIsNoEnd =>
    \A k \in DOMAIN reveal :
      LET p == PublicPart(k) IN
      /\ \A q \in reveal[k] : \E r \in Readings(p, 0 .. NumBytes) : Reads(r, q)
      /\ out = 1 => \A q \in 0 .. MsgBytes - 1 :
                       (\A r \in Readings(p, MatchEnds) : Reads(r, q)) => q \in reveal[k]

=============================================================================
