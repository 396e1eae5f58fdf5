------------------------------ MODULE MCUploads ------------------------------
(* Uploads for TLC: calls, workers, ids and messages are interchangeable. *)
EXTENDS Uploads, TLC

UploadSymmetry ==
    Permutations(Keys) \cup Permutations(Inits) \cup Permutations(Workers)
      \cup Permutations(Notices) \cup Permutations(Videos)

(* Sizes are told of objects with the session's MD5 only: the handler never *)
(* reads the size of a mismatch, and treats no MD5 as the same one.        *)
SizesOfMatches ==
    \A o \in Videos : store[o] # Null /\ store[o].md5 # "same" => store[o].size = Null
=============================================================================
