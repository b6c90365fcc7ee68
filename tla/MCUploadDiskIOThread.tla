------------------------ MODULE MCUploadDiskIOThread ------------------------
(* Two clients read from a complete file, which may be renamed, and from a *)
(* part file.                                                              *)
EXTENDS UploadDiskIOThread

CONSTANTS c1, c2, shared, part
=============================================================================
