----------------------------- MODULE MCEvbuffer -----------------------------
(* Evbuffer with chunks that make lines and fill, or overfill, a chain.    *)
EXTENDS Evbuffer

MCChunks == {<<"x">>, <<"r", "n">>, <<"n", "x", "r">>}

MCView == <<program, calls, heap, buf, vecs, io, bad, behind>>

=============================================================================
