---------------------------- MODULE MCVfsStream ----------------------------
EXTENDS VfsStream

(* Two chunks, the last one short; a window shows one of them or both. *)
MCViewports == {<<0, 1>>, <<1, 1>>}
MCOneViewport == {<<0, 1>>}

=============================================================================
