-------------------------------- MODULE Null --------------------------------
(* The value that stands for the absence of one: None, nil, no file.         *)
CONSTANT NULL
=============================================================================
