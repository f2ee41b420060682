--------------------------- MODULE FileStorageMC ---------------------------
(* Two goroutines, two contents, a batch of two and three creates: a batch *)
(* meets a list that is not empty, the newest post can be deleted and its  *)
(* id handed out again, and a deletion can leave a gap in the ids.         *)
EXTENDS FileStorage, TLC

CONSTANTS c1, c2

MCBatches == {<<c1, c2>>}

=============================================================================
