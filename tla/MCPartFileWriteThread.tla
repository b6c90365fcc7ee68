----------------------- MODULE MCPartFileWriteThread -----------------------
(* Two downloads share the worker for four jobs: one of them flushes      *)
(* twice, so an old event can meet a new job of the same file.             *)
EXTENDS PartFileWriteThread

CONSTANTS f1, f2
=============================================================================
