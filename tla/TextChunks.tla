----------------------------- MODULE TextChunks -----------------------------
(***************************************************************************)
(* How a loaded document is cut into the chunks that are indexed: windows  *)
(* of chunkSize characters, of which neighbours share overlap characters.  *)
(* A document is its trimmed text, of which only the length, and which     *)
(* characters are visible and not blank, matters here.                     *)
(***************************************************************************)
EXTENDS Integers

(* What chunk makes of the configuration of a textChunker. *)
ChunkSize(c) == IF c.chunkSize <= 0 THEN 1200 ELSE c.chunkSize

Overlap(c) ==
  IF c.overlap <= 0 THEN 0
  ELSE IF c.overlap >= ChunkSize(c) THEN ChunkSize(c) \div 4
  ELSE c.overlap

Step(c) == ChunkSize(c) - Overlap(c)

(* The k-th window begins at k * Step, if the one before did not come to   *)
(* the end of the text.                                                    *)
Windows(c, n) ==
  {k \in 0..(n - 1) : k = 0 \/ (k - 1) * Step(c) + ChunkSize(c) < n}

Start(c, k) == k * Step(c)

End(c, n, k) ==
  IF Start(c, k) + ChunkSize(c) <= n THEN Start(c, k) + ChunkSize(c) ELSE n

(* The chunks of a text of n characters: the windows that are not blank.   *)
chunk(c, n, visible) ==
  {[start |-> Start(c, k), end |-> End(c, n, k)] :
     k \in {j \in Windows(c, n) :
              \E i \in Start(c, j)..(End(c, n, j) - 1) : visible[i]}}

Chunkers == [chunkSize : Int, overlap : Int]
=============================================================================
