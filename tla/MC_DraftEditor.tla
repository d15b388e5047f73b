--------------------------- MODULE MC_DraftEditor ---------------------------
(* Instances of DraftEditor: every tab in a browser of its own, or all in  *)
(* one browser.                                                            *)
EXTENDS DraftEditor, ArticleRevisionsHistory, TLC

OwnBrowser == [t \in Tabs |-> CHOOSE b \in Browsers : b = t]
OneBrowser == [t \in Tabs |-> CHOOSE b \in Browsers : TRUE]

RequestSymmetry == Permutations(Requests)
=============================================================================
