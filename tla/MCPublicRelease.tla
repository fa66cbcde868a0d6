----------------------------- MODULE MCPublicRelease -----------------------------
(* Instances of PublicRelease for TLC.                                         *)
EXTENDS PublicRelease
=============================================================================
