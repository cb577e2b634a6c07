---------------------------- MODULE MCGeneration ----------------------------
(***************************************************************************)
(* Instances of Generation for TLC.  A window of 6, a context of 9 and     *)
(* batches of 3: prompts of one chunk, whose rounds reach the window from  *)
(* below, and of three chunks, past the window at once and past the context*)
(* within a few tokens.  A second call meets what the first one left in    *)
(* the drafter.                                                            *)
(***************************************************************************)
EXTENDS Generation

MCPromptLengths == {2, 7}
MCMaxTokens == {0, 1, 4}
MCDraftKs == {2, 3}
MCStopIndices == {0, 1, 3}
=============================================================================
