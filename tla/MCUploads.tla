------------------------------ MODULE MCUploads ------------------------------
(* An upload of a package, another user that saves its status, an upload of   *)
(* another package, and two calls of DeletePackageAsync.                      *)
EXTENDS Uploads

CONSTANTS a1, s1, o1, d1, d2

MCUsers     == {a1, s1}
MCUploaders == {a1}
MCOthers    == {o1}
MCDeleters  == {d1, d2}
=============================================================================
