--------------------------- MODULE MC_Provisioner ---------------------------
(***************************************************************************)
(* Small instances of Provisioner for TLC.                                 *)
(***************************************************************************)
EXTENDS Provisioner

CONSTANTS
    a, sp, nl,      \* a letter, the space and the newline character
    dockerconf,     \* ./deploy/dockerconf
    alt,            \* another output directory whose parent exists
    nested,         \* an output directory whose parent is missing
    localfs         \* a --local_fs_path value

(* Inputs of at most one character, letters only: every value resolves.   *)
MCCharLetters == {a}

(* Inputs of at most one character, a letter or a space.                  *)
MCCharBlank == {a, sp}

MCOutPaths == {dockerconf, alt, nested}

MCNoParent == {nested}

MCLocalPaths == {localfs}

(* The docker configuration directory and the seaweed data directory may  *)
(* be left over from an earlier deployment.                               *)
MCPreexisting == {dockerconf, SeaweedDir}
=============================================================================
