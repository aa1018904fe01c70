---------------------------- MODULE MCKeepEdits ----------------------------
EXTENDS KeepEdits

MCSources == {<<0, 0>>, <<0, 1>>}
MCPayloads == {<<0>>, <<1>>}

=============================================================================
