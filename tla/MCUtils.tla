------------------------------ MODULE MCUtils ------------------------------
(***************************************************************************)
(* The functions of utils.hpp on the same strings: safeUtf8 turn by turn,  *)
(* and the path functions on every way to cut the string in a directory    *)
(* and a name.                                                             *)
(***************************************************************************)
EXTENDS WfsUtf8, WfsPaths

(* Of every class of bytes the masks tell apart one at least: '/' and '\\',*)
(* the continuation bytes 0x80 and 0xBF, the leads 0xC0, 0xE2 and 0xF0,    *)
(* and 0xFF.                                                               *)
MCBytes == {47, 92, 128, 191, 192, 226, 240, 255}

Cuts == {<<SubSeq(input, 1, k), SubSeq(input, k + 1, Len(input))>> :
           k \in 0 .. Len(input)}

(* What combinePath puts together, getDirectory and getFileName take       *)
(* apart: the name of a file in a directory is found again,                *)
NameFound == \A c \in Cuts : FindsName(c[1], c[2])

(* and so is the directory, but for a separator at its end.                *)
DirectoryFound == \A c \in Cuts : FindsDirectory(c[1], c[2])

(* "Use the same separator as path1": a directory that has separators gets *)
(* no other kind.  One that has both gets '\', whichever it uses last.      *)
SameSeparator == \A c \in Cuts : KeepsSeparator(c[1], c[2])
=============================================================================
