---------------------------- MODULE MCFileServer ----------------------------
(***************************************************************************)
(* FileServer with the document root /w, beside it /w2 and /x.             *)
(***************************************************************************)
EXTENDS FileServer

w == <<"w">>
w2 == <<"w", "2">>
x == <<"x">>

RootW == <<w>>
SomePaths == {<<>>, <<w>>, <<w2>>, <<w, x>>, <<w2, w>>, <<x, w>>}
SomeListings == {0, 2}
=============================================================================
