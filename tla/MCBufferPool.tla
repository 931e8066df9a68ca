---------------------------- MODULE MCBufferPool ---------------------------
(* BufferPool for TLC.  Pages, frames, page objects and clients are all     *)
(* interchangeable: frames are told apart only by the times in history.    *)
EXTENDS BufferPool, TLC

PoolSymmetry == Permutations(Pages) \cup Permutations(Frames)
                  \cup Permutations(Buffers) \cup Permutations(Clients)
=============================================================================
