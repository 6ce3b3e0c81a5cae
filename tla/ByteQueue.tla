----------------------------- MODULE ByteQueue -----------------------------
(***************************************************************************)
(* What an evbuffer promises its callers: a queue of bytes per buffer.     *)
(* call is the last call together with what it returned; every call either *)
(* fails and leaves the bytes alone or does to them what its name says.    *)
(* Evbuffer.tla implements this specification with lists of chains.        *)
(***************************************************************************)
EXTENDS Integers, Sequences, FiniteSets

CONSTANT Buffers

VARIABLES content, call

vars == <<content, call>>

Prefix(s, n) == SubSeq(s, 1, n)
Suffix(s, n) == SubSeq(s, n + 1, Len(s))

(* The first position (from 0) at or after from where what occurs, or -1.  *)
FirstOccurrence(s, what, from) ==
    LET at == {p \in from..(Len(s) - Len(what)) : SubSeq(s, p + 1, p + Len(what)) = what}
    IN  IF at = {} THEN -1 ELSE CHOOSE p \in at : \A q \in at : p <= q

(* Where the line ends and how many bytes its end takes, for every style.  *)
LineEnd(s, style) ==
    LET isEnd(p) == CASE style = "LF"     -> s[p + 1] = "n"
                      [] style = "STRICT" -> p + 2 <= Len(s) /\ s[p + 1] = "r" /\ s[p + 2] = "n"
                      [] style = "CRLF"   -> \/ s[p + 1] = "n"
                                             \/ p + 2 <= Len(s) /\ s[p + 1] = "r" /\ s[p + 2] = "n"
                      [] style = "ANY"    -> s[p + 1] \in {"r", "n"}
        ends == {p \in 0..(Len(s) - 1) : isEnd(p)}
        p == CHOOSE q \in ends : \A o \in ends : q <= o
        run == CHOOSE n \in 1..Len(s) :
                 /\ \A k \in 1..n : p + k <= Len(s) /\ s[p + k] \in {"r", "n"}
                 /\ p + n < Len(s) => s[p + n + 1] \notin {"r", "n"}
    IN  IF ends = {} THEN [pos |-> -1, len |-> 0]
        ELSE [pos |-> p, len |-> CASE style = "LF" -> 1
                                   [] style = "STRICT" -> 2
                                   [] style = "CRLF" -> IF s[p + 1] = "n" THEN 1 ELSE 2
                                   [] style = "ANY" -> run]

-----------------------------------------------------------------------------
Init == content = [b \in Buffers |-> <<>>] /\ call = [op |-> "new"]

Fails == ~call'.ok /\ UNCHANGED content

(* The end of a buffer grows by the bytes of the caller or of the system.  *)
Appends ==
    /\ call'.ok /\ call'.op = "append"
    /\ content' = [content EXCEPT ![call'.b] = @ \o call'.data]

Prepends ==
    /\ call'.ok /\ call'.op = "prepend"
    /\ content' = [content EXCEPT ![call'.b] = call'.data \o @]

(* The bytes a caller is handed, or the system is given, leave the front.  *)
Removes ==
    /\ call'.ok /\ call'.op = "remove"
    /\ content[call'.b] = call'.data \o content'[call'.b]
    /\ content' = [content EXCEPT ![call'.b] = Suffix(@, Len(call'.data))]

(* A line is handed out, and its end is dropped with it.                   *)
ReadsLine ==
    /\ call'.ok /\ call'.op = "readln"
    /\ LET s == content[call'.b]
           e == LineEnd(s, call'.style)
       IN  IF e.pos = -1 THEN ~call'.found /\ UNCHANGED content
           ELSE /\ call'.found /\ call'.line = Prefix(s, e.pos)
                /\ content' = [content EXCEPT ![call'.b] = Suffix(@, e.pos + e.len)]

(* n bytes move from the front of one buffer to an end of the other.       *)
Moves ==
    /\ call'.ok /\ call'.op = "move"
    /\ LET from == call'.b
           to == call'.to
           n == call'.n
       IN  content' = [content EXCEPT ![from] = Suffix(@, n),
                                      ![to] = IF call'.front THEN Prefix(content[from], n) \o @
                                              ELSE @ \o Prefix(content[from], n)]

(* Calls that only look at the bytes, or only arrange the memory.          *)
Looks ==
    /\ call'.ok /\ UNCHANGED content
    /\ CASE call'.op = "search" ->
              call'.pos = FirstOccurrence(content[call'.b], call'.what, call'.from)
         [] call'.op = "pullup" -> call'.data = Prefix(content[call'.b], call'.n)
         [] call'.op = "peek" -> call'.data = Prefix(content[call'.b], Len(call'.data))
         [] OTHER -> call'.op = "arrange"

Frees ==
    /\ call'.ok /\ call'.op = "free"
    /\ content' = [content EXCEPT ![call'.b] = <<>>]

Next == Fails \/ Appends \/ Prepends \/ Removes \/ ReadsLine \/ Moves \/ Looks \/ Frees

Spec == Init /\ [][Next]_vars

=============================================================================
