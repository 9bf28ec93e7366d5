---------------------------- MODULE MCFFDBQuery ----------------------------
(* Small databases for FFDBQuery. *)
EXTENDS FFDBQueryStream, SequencesExt

yes == <<TRUE>>             \* a row that passes
no  == <<FALSE>>            \* a row that does not
joined == <<FALSE, TRUE, TRUE>>    \* a row that passes with two secondary rows

MkFile(o, b, rs) == [opens |-> o, bad |-> b, rows |-> rs]
MkDir(o, fs)     == [opens |-> o, top |-> FALSE, files |-> fs]
Unopened(t)      == [opens |-> FALSE, top |-> t, files |-> <<>>]
MkRoot(o, ds)    == [opens |-> o, dirs |-> ds]
Author(t)      == [kind |-> "author", global |-> TRUE, segRoot |-> TRUE, oneLevel |-> TRUE,
                   table |-> <<>>, tree |-> t]
Wfdisc(o, t)   == [kind |-> "wfdisc", global |-> TRUE, segRoot |-> o, oneLevel |-> TRUE,
                   table |-> <<>>, tree |-> t]
Static(o, rs)  == [kind |-> "static", global |-> o, segRoot |-> TRUE, oneLevel |-> TRUE,
                   table |-> rs, tree |-> <<MkRoot(FALSE, <<>>)>>]

Files == {MkFile(TRUE, FALSE, rs) : rs \in {<<>>, <<yes>>, <<no, yes>>, <<joined, yes>>}}
         \cup {MkFile(TRUE, TRUE, <<yes>>), MkFile(FALSE, FALSE, <<yes>>)}

Dirs == {MkDir(TRUE, fs) : fs \in BoundedSeq(Files, 1)} \cup {MkDir(FALSE, <<>>)}
TwoFiles == {MkDir(TRUE, <<f, g>>) : f, g \in Files}

AuthorDBs ==
    {Author(<<MkRoot(TRUE, ds)>>) : ds \in BoundedSeq(Dirs, 2)}
    \cup {Author(<<MkRoot(TRUE, <<d, MkDir(TRUE, <<MkFile(TRUE, FALSE, <<yes>>)>>)>>)>>) :
          d \in TwoFiles}
    \cup {Author(<<MkRoot(FALSE, <<>>)>>)}

WfdiscDBs ==
    {Wfdisc(TRUE, <<MkRoot(TRUE, <<d>>), MkRoot(o, <<e>>), MkRoot(TRUE, <<d>>)>>) :
     d, e \in Dirs, o \in BOOLEAN}
    \cup {Wfdisc(FALSE, <<MkRoot(TRUE, <<MkDir(TRUE, <<MkFile(TRUE, FALSE, <<yes>>)>>)>>)>>)}

StaticDBs == {Static(TRUE, rs) : rs \in BoundedSeq({yes, no, joined, <<>>}, 3)}
             \cup {Static(FALSE, <<yes>>)}

OneLevelDBs == AuthorDBs \cup WfdiscDBs
FlatDBs == OneLevelDBs \cup {[d EXCEPT !.oneLevel = FALSE] : d \in OneLevelDBs}

\* Several levels of directories: one above the files cannot be opened.
OneFile == MkDir(TRUE, <<MkFile(TRUE, FALSE, <<yes>>)>>)
DeepDBs == {[d EXCEPT !.oneLevel = FALSE] :
            d \in {Author(<<MkRoot(TRUE, <<e, Unopened(t), OneFile>>)>>) : e \in Dirs, t \in BOOLEAN}
                 \cup {Wfdisc(TRUE, <<MkRoot(TRUE, <<Unopened(t), e>>), MkRoot(TRUE, <<OneFile>>)>>) :
                       e \in Dirs, t \in BOOLEAN}}

AllDBs  == FlatDBs \cup DeepDBs \cup StaticDBs
=============================================================================
