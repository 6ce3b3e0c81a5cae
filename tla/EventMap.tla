------------------------------ MODULE EventMap ------------------------------
(***************************************************************************)
(* The events of every descriptor (evmap.c) and the arrays that the        *)
(* Windows back end gives to select() (win32select.c).                     *)
(*                                                                         *)
(* io.events[fd] is the list of the events of a descriptor, io.n[fd] the   *)
(* counters nread and nwrite, io.set the arrays readset_in and             *)
(* writeset_in, and io.pos[fd] the positions in them (read_pos_plus1 and   *)
(* write_pos_plus1).  Arrays grow as needed; the memory is left out.       *)
(***************************************************************************)
EXTENDS Integers, Sequences, FiniteSets, SequencesExt

Kinds == {"read", "write"}

(* win32_init with evmap_io_clear: no descriptor has an event.             *)
win32_init(descriptors) ==
    [events |-> [fd \in descriptors |-> <<>>],
     n |-> [fd \in descriptors |-> [k \in Kinds |-> 0]],
     pos |-> [fd \in descriptors |-> [k \in Kinds |-> 0]],
     set |-> [k \in Kinds |-> <<>>]]

do_fd_set(io, fd, k) ==
    IF io.pos[fd][k] > 0 THEN io
    ELSE [io EXCEPT !.set[k] = Append(@, fd), !.pos[fd][k] = Len(io.set[k]) + 1]

(* Mutated: the descriptor that moves keeps its old position.              *)
ClearForgetsMoved(io, fd, k) ==
    LET i == io.pos[fd][k]
        last == Len(io.set[k])
        moved == io.set[k][last]
        cleared == [io EXCEPT !.pos[fd][k] = 0]
    IN  IF i = 0 THEN cleared
        ELSE [cleared EXCEPT !.set[k] = SubSeq([@ EXCEPT ![i] = moved], 1, last - 1)]

(* The last descriptor of the array moves to the place that becomes free.  *)
do_fd_clear(io, fd, k) ==
    LET i == io.pos[fd][k]
        last == Len(io.set[k])
        moved == io.set[k][last]
        cleared == [io EXCEPT !.pos[fd][k] = 0]
    IN  IF i = 0 THEN cleared
        ELSE IF i = last THEN [cleared EXCEPT !.set[k] = SubSeq(@, 1, last - 1)]
        ELSE [cleared EXCEPT !.set[k] = SubSeq([@ EXCEPT ![i] = moved], 1, last - 1),
                             !.pos[moved][k] = i]

win32_add(io, fd, kinds) ==
    LET io1 == IF "read" \in kinds THEN do_fd_set(io, fd, "read") ELSE io
    IN  IF "write" \in kinds THEN do_fd_set(io1, fd, "write") ELSE io1

win32_del(io, fd, kinds) ==
    LET io1 == IF "read" \in kinds THEN do_fd_clear(io, fd, "read") ELSE io
    IN  IF "write" \in kinds THEN do_fd_clear(io1, fd, "write") ELSE io1

(* The kinds for which e is the first or the last event of its descriptor: *)
(* evmap_io_add and evmap_io_del call the back end for these, and return 1 *)
(* if there are any.                                                       *)
Added(io, fd, kinds) == {k \in kinds : io.n[fd][k] = 0}
Removed(io, fd, kinds) == {k \in kinds : io.n[fd][k] = 1}

evmap_io_add(io, fd, e, kinds) ==
    [win32_add(io, fd, Added(io, fd, kinds)) EXCEPT
        !.n[fd] = [k \in Kinds |-> IF k \in kinds THEN @[k] + 1 ELSE @[k]],
        !.events[fd] = Append(@, e)]

evmap_io_del(io, fd, e, kinds) ==
    [win32_del(io, fd, Removed(io, fd, kinds)) EXCEPT
        !.n[fd] = [k \in Kinds |-> IF k \in kinds THEN @[k] - 1 ELSE @[k]],
        !.events[fd] = RemoveFirst(@, e)]

(* fd_set_copy: what select() is given.                                    *)
fd_set_copy(io) == UNION {{<<fd, k>> : fd \in ToSet(io.set[k])} : k \in Kinds}

=============================================================================
