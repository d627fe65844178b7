-------------------------------- MODULE Values ---------------------------------
(* The value of whatever is not there, a field that is null or a name not given, and of what *)
(* is there and is refused when it is read.                                             *)
CONSTANTS None, Malformed
================================================================================
