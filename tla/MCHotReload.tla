---------------------------- MODULE MCHotReload ----------------------------
(**************************************************************************)
(* Two readers, a preload, a reload by hand and the file watcher.         *)
(**************************************************************************)
EXTENDS HotReload
============================================================================
