----------------------------- MODULE DataMethod -----------------------------
(***************************************************************************)
(* The processing history of waveforms.  A GTimeSeries keeps the list of   *)
(* the DataMethods applied to its data; to change or remove one of them,   *)
(* the raw data are read again and the list is replayed.  Cuts are methods *)
(* too, and an UndoCut takes them out of the list again.                   *)
(***************************************************************************)
EXTENDS Integers, FiniteSets, SequencesExt

CONSTANTS
    Waveforms,      \* places of the display
    East, North,    \* two of them: components that can be rotated
    Spare,          \* one of them: for what is pasted
    Derived,        \* those of them that hold a beam, made from other data
    Absent,         \* nothing displayed there
    Bands,          \* parameters of filters
    MaxCuts,        \* bound: cuts in one history
    Setups          \* what is displayed at the start, and what is done: see Setup

ASSUME WaveformsAssumption ==
    /\ {East, North, Spare} \subseteq Waveforms /\ Derived \subseteq Waveforms
    /\ East # North /\ Spare \notin {East, North} /\ Derived \cap {East, North} = {}
    /\ Absent \notin Waveforms
ASSUME BandsAssumption == Bands \subseteq Nat
ASSUME MaxCutsAssumption == MaxCuts \in Nat

\* The waveforms on the screen; the methods and filters that the user applies;
\* whether anything is pasted; what becomes of the disk; and two bounds: methods
\* in a list, and cuts.
Setup == [screen : SUBSET Waveforms, types : SUBSET {"Demean", "CalibData", "AmpData"},
          bands : SUBSET Bands, pastes : BOOLEAN, disks : SUBSET {"all", "part", "none"},
          list : Nat, cuts : 0..MaxCuts]

ASSUME SetupsAssumption == Setups \subseteq Setup

VARIABLES
    setup,      \* chosen once
    wave,       \* what each place displays
    disk,       \* what can be read of the waveform files: "all", "part" or "none"
    clipboard,  \* what was cut or copied last
    undo,       \* the actions that can be undone, the last one at the end
    cuts,       \* how often something was cut
    shown       \* for the properties: what was displayed since the last clear

vars == <<setup, wave, disk, clipboard, undo, cuts, shown>>

\* A method, by its class and its parameters.
Method(t, n) == [type |-> t, id |-> n]
Demean    == Method("Demean", 0)
Taper     == Method("TaperData", 0)
Calib     == Method("CalibData", 0)
Polarity  == Method("AmpData", 0)
Rotate    == Method("RotateData", 0)
Copied    == Method("CopyData", 0)
Filter(b) == Method("IIRFilter", b)
Cut(n)    == Method("CutData", n)

Methods == {Demean, Taper, Calib, Polarity, Rotate, Copied}
           \cup {Filter(b) : b \in Bands} \cup {Cut(n) : n \in 1..MaxCuts}

\* A GTimeSeries: the list of its methods, and its data, which are the methods
\* that were really applied (done) to what was read (raw): its own data, those
\* of the first element of a beam, a part of these, or none.  copy: it has a copy of its raw data
\* (makeCopy); own: its RotateData is for this very object.  wrong is for the
\* properties: how the last replay missed the list.
TimeSeries ==
    [list : Seq(Methods), done : Seq(Methods), raw : {"own", "element", "part", "none"},
     copy : BOOLEAN, derived : BOOLEAN, own : BOOLEAN,
     wrong : {"no", "stuck", "torn", "unread", "mixed", "left"}]

ASSUME AbsentAssumption == Absent \notin TimeSeries

\* An UndoCut: the cut made in waveforms, and the waveforms taken away.
UndoCut == [cut : 1..MaxCuts, cut_ts : [Waveforms -> TimeSeries \cup {Absent}]]

On     == {w \in Waveforms : wave[w] # Absent}
Nobody == [w \in Waveforms |-> Absent]

Fresh(w) == [list |-> <<>>, done |-> <<>>, raw |-> "own", copy |-> w \in Derived,
             derived |-> w \in Derived, own |-> FALSE, wrong |-> "no"]

Init ==
    /\ setup \in Setups
    /\ wave = [w \in Waveforms |-> IF w \in setup.screen THEN Fresh(w) ELSE Absent]
    /\ disk = "all"
    /\ clipboard = Absent
    /\ undo = <<>>
    /\ cuts = 0
    /\ shown = On

-----------------------------------------------------------------------------
(* Lists of methods *)

Has(list, t) == \E i \in DOMAIN list : list[i].type = t
Rotated(list) == list # <<>> /\ list[1].type = "RotateData"

\* The methods before the first cut.
BeforeCut(list) ==
    SubSeq(list, 1,
           Cardinality({i \in DOMAIN list : \A j \in 1..i : list[j].type # "CutData"}))

\* Do the methods in list from j on have these types?
At(list, types, j) ==
    /\ j + Len(types) - 1 <= Len(list)
    /\ \A k \in DOMAIN types : list[j + k - 1].type = types[k]

Types(dm) == [k \in DOMAIN dm |-> dm[k].type]

\* The greatest number of S, in a set.
Greatest(S) == {j \in S : \A i \in S : i <= j}

\* changeMethods: the last run of methods of the same types is replaced, or the
\* methods are added.
Replace(list, dm) ==
    LET last == Greatest({j \in DOMAIN list : At(list, Types(dm), j)})
        j == CHOOSE i \in last : TRUE
    IN  IF last = {} THEN list \o dm
        ELSE SubSeq(list, 1, j - 1) \o dm \o SubSeq(list, j + Len(dm), Len(list))

\* remove: the last method of the last type goes, and those before it as long as
\* they are of the types before.
Removed(list, types) ==
    LET n == Len(types)
        last == Greatest({j \in DOMAIN list : list[j].type = types[n]})
        j == CHOOSE i \in last : TRUE
        c == Cardinality({k \in 1..j : k <= n /\ \A i \in 0..(k - 1) :
                                           list[j - i].type = types[n - i]})
    IN  IF last = {} THEN list ELSE SubSeq(list, 1, j - c) \o SubSeq(list, j + 1, Len(list))

Triple == <<"Demean", "TaperData", "IIRFilter">>

-----------------------------------------------------------------------------
(* Reading and replaying *)

WithList(v, list) == [v EXCEPT !.list = list, !.own = @ /\ Rotated(list)]

\* Mutant: the files are looked at first.
RereadFile(v) == [v EXCEPT !.done = <<>>, !.wrong = "no",
                           !.raw = IF disk # "all" THEN IF v.copy THEN "own" ELSE disk
                                   ELSE IF v.derived THEN "element" ELSE "own"]

\* GTimeSeries::reread takes the copy; a data source removes the data and reads by
\* the rows of wfdisc, which a beam has of its first element, up to the first
\* failure.  (It knows their time window, from when it made the waveform.)
Reread(v) == [v EXCEPT !.done = <<>>, !.wrong = "no",
                       !.raw = IF v.copy THEN "own" ELSE IF disk # "all" THEN disk
                               ELSE IF v.derived THEN "element" ELSE "own"]

CanReread(v) == v.copy \/ disk = "all"

\* A RotateData asks for the object that it was made for, a CutData for data.
Stuck(v, list) == Rotated(list) /\ ~v.own
CanDo(v, list) == ~Stuck(v, list) /\ (v.raw = "none" => ~Has(list, "CutData"))

\* doMethods on an object just read, in whole: a cut that it was given finds data.
\* It leaves a new object, which is not the RotateData's and has no copy.
DoMethods(v, list) ==
    LET new == CanDo(v, list) /\ Has(list, "CutData")
    IN  [v EXCEPT !.done = IF v.raw = "none" \/ Stuck(v, list) THEN <<>> ELSE list,
                  !.own = @ /\ ~new, !.copy = @ /\ ~new,
                  !.wrong = IF Stuck(v, list) THEN "stuck" ELSE "no"]

\* Mutant: the methods are done on what is displayed.
ReplayNoReread(v) == IF CanReread(v) THEN [v EXCEPT !.done = @ \o v.list] ELSE Reread(v)

\* The reading fails, and no method is done.
Unread(v) == [Reread(v) EXCEPT !.wrong = IF disk = "part" THEN "unread" ELSE "no"]

\* reread and doMethods with the list of the waveform, as in update,
\* changeMethods and remove, which stop when the reading fails.
Replay(v) == IF CanReread(v) THEN DoMethods(Reread(v), v.list) ELSE Unread(v)

\* GTimeSeries::applyMethods, after a reread whose result is not asked: a cut
\* makes a new object, and that one is lost with what follows, or finds no data.
ReplayMember(v) ==
    LET r == Reread(v)
    IN  [r EXCEPT
            !.done = IF r.raw = "none" \/ Stuck(v, v.list) THEN <<>> ELSE BeforeCut(v.list),
            !.wrong = IF Stuck(v, v.list) THEN "stuck"
                      ELSE IF Has(v.list, "CutData") THEN "torn" ELSE "no"]

\* DataMethod::apply, to data that are there or not.
Applied(v, dm) ==
    [v EXCEPT !.list = @ \o dm,
              !.done = IF v.raw = "none" THEN @ ELSE @ \o dm]

\* Mutant: copyInfo without the hashtables, the methods among them.
WindowNoList(v, m) == [Applied(v, <<m>>) EXCEPT !.list = <<m>>, !.copy = FALSE, !.own = FALSE]

\* The new object with the data in some window: it has no copy of its own.
Window(v, m) == [Applied(v, <<m>>) EXCEPT !.copy = FALSE, !.own = FALSE]

\* A copy of the object: the RotateData is not for it.
CopyOf(v) == [v EXCEPT !.own = FALSE]

\* What is displayed at w becomes v.
Set(w, v) ==
    /\ wave' = [wave EXCEPT ![w] = v]
    /\ UNCHANGED <<setup, disk, clipboard, undo, cuts, shown>>

Room(w, n) == Len(wave[w].list) + n <= setup.list

-----------------------------------------------------------------------------
(* One waveform *)

\* removeMean, changeCalib and polarity apply what is not there yet.
Apply(w) ==
    /\ Room(w, 1)
    /\ \/ /\ "Demean" \in setup.types
          /\ (wave[w].list # <<>> => Last(wave[w].list) # Demean)
          /\ Set(w, Applied(wave[w], <<Demean>>))
       \/ /\ "CalibData" \in setup.types /\ ~Has(wave[w].list, "CalibData")
          /\ Set(w, Applied(wave[w], <<Calib>>))
       \/ /\ "AmpData" \in setup.types /\ ~Has(wave[w].list, "AmpData")
          /\ Set(w, Applied(wave[w], <<Polarity>>))

\* A filter replaces the last one, or comes on top.
ChangeFilter(w, b) ==
    LET list == Replace(wave[w].list, <<Demean, Taper, Filter(b)>>)
    IN  /\ wave[w].raw # "none"
        /\ Len(list) <= setup.list
        /\ Set(w, Replay(WithList(wave[w], list)))

AddFilter(w, b) ==
    /\ wave[w].raw # "none"
    /\ Room(w, 3)
    /\ Set(w, Applied(wave[w], <<Demean, Taper, Filter(b)>>))

\* DataMethod::remove for one waveform: nothing is replayed if nothing is found.
RemoveMethods(w) == \E types \in {Triple, <<"Demean">>, <<"CalibData">>} :
    /\ Has(wave[w].list, Last(types))
    /\ Set(w, Replay(WithList(wave[w], Removed(wave[w].list, types))))

\* polarity(normal): removeMethod of the waveform itself.
Normal(w) == \E i \in DOMAIN wave[w].list :
    /\ wave[w].list[i] = Polarity
    /\ Set(w, ReplayMember(WithList(wave[w], RemoveAt(wave[w].list, i))))

\* A row selected in the window History.
RemoveRow(w) == \E i \in DOMAIN wave[w].list :
    Set(w, Replay(WithList(wave[w], RemoveAt(wave[w].list, i))))

RemoveAllMethods(w) ==
    /\ wave[w].list # <<>>
    /\ Set(w, Reread(WithList(wave[w], <<>>)))

-----------------------------------------------------------------------------
(* Two components *)

\* Mutant: the RotateData that is there stays.
WithRotateAgain(v) == [v EXCEPT !.list = <<Rotate>> \o @, !.own = TRUE]

\* "always make the rotation the first operation"
WithRotate(v) ==
    [v EXCEPT !.list = IF Rotated(@) THEN @ ELSE <<Rotate>> \o @, !.own = TRUE]

\* rotateWaveforms: each component with a RotateData of its own.
RotateWaveforms ==
    /\ \A w \in {East, North} : /\ w \in On /\ wave[w].raw # "none"
                                /\ Rotated(wave[w].list) \/ Room(w, 1)
    /\ wave' = [w \in Waveforms |-> IF w \in {East, North} THEN Replay(WithRotate(wave[w]))
                                    ELSE wave[w]]
    /\ UNCHANGED <<setup, disk, clipboard, undo, cuts, shown>>

\* remove("RotateData") for both: "assumes that the methods vector is the same
\* for all ts", and replays the list of the first one for each.  A cut of that
\* list may find no data in the second: then none of the new objects is displayed.
\* A failure of the first to be read leaves the second as it was.
Unrotate ==
    LET rest(w) == WithList(wave[w], Removed(wave[w].list, <<"RotateData">>))
        list == rest(East).list
        done(w) == [DoMethods(Reread(rest(w)), list) EXCEPT
                        !.wrong = IF rest(w).list = list THEN "no" ELSE "mixed"]
        kept(w) == IF rest(w).list = wave[w].list THEN wave[w]
                   ELSE [rest(w) EXCEPT !.wrong = "left"]
        torn(w) == [Reread(rest(w)) EXCEPT !.done = BeforeCut(list),
                                           !.wrong = IF w = East THEN "torn" ELSE "mixed"]
        left(w) == IF w = East THEN Unread(rest(w)) ELSE kept(w)
        new(w, cut) == IF disk # "all" THEN left(w) ELSE IF cut THEN done(w) ELSE torn(w)
    IN  /\ {East, North} \subseteq On
        /\ \E w \in {East, North} : Has(wave[w].list, "RotateData")
        /\ \E cut \in BOOLEAN :
              /\ cut \/ (rest(North).list # list /\ Has(list, "CutData"))
              /\ wave' = [w \in Waveforms |->
                            IF w \in {East, North} THEN new(w, cut) ELSE wave[w]]
        /\ UNCHANGED <<setup, disk, clipboard, undo, cuts, shown>>

-----------------------------------------------------------------------------
(* Cut, copy, paste and undo *)

Taken(D) == [w \in Waveforms |-> IF w \in D THEN wave[w] ELSE Absent]

\* Mutant: the cut before this one is undone.
NewUndoBefore(D) == [cut |-> cuts, cut_ts |-> Taken(D)]
NewUndo(D)       == [cut |-> cuts + 1, cut_ts |-> Taken(D)]

\* Waveforms in P lose the part selected, those in D are taken away.  The
\* CutDatas of one call have one number here: they are undone together.  Bound:
\* a clipboard with several waveforms is not pasted.
CutWaveforms(P, D) ==
    /\ P \cup D # {} /\ P \cap D = {}
    /\ cuts < setup.cuts
    /\ \A w \in P : wave[w].raw # "none" /\ Room(w, 1)
    /\ wave' = [w \in Waveforms |-> IF w \in D THEN Absent
                                    ELSE IF w \in P THEN Window(wave[w], Cut(cuts + 1))
                                    ELSE wave[w]]
    /\ undo' = Append(undo, NewUndo(D))
    /\ cuts' = cuts + 1
    /\ clipboard' = IF Cardinality(P \cup D) # 1 \/ ~setup.pastes THEN Absent
                    ELSE LET w == CHOOSE x \in P \cup D : TRUE
                         IN  IF w \in D THEN CopyOf(wave[w]) ELSE Window(wave[w], Copied)
    /\ UNCHANGED <<setup, disk, shown>>

CopyWaveform(w) ==
    /\ setup.pastes
    /\ \/ clipboard' = CopyOf(wave[w])
       \/ wave[w].raw # "none" /\ Room(w, 1) /\ clipboard' = Window(wave[w], Copied)
    /\ UNCHANGED <<setup, wave, disk, undo, cuts, shown>>

\* Bound: one pasted waveform at a time, the ones that can be undone included.
PasteData ==
    /\ clipboard # Absent
    /\ Spare \notin On /\ \A i \in DOMAIN undo : undo[i].cut_ts[Spare] = Absent
    /\ wave' = [wave EXCEPT ![Spare] = CopyOf(clipboard)]
    /\ shown' = shown \cup {Spare}
    /\ UNCHANGED <<setup, disk, clipboard, undo, cuts>>

\* Mutant: removeMethod(dm, false).
UncutList(v, n) == WithList(v, SelectSeq(v.list, LAMBDA m : m # Cut(n)))

\* removeMethod of the cut, if the waveform has it.
Uncut(v, n) ==
    LET i == CHOOSE j \in DOMAIN v.list : v.list[j] = Cut(n)
    IN  IF \A j \in DOMAIN v.list : v.list[j] # Cut(n) THEN v
        ELSE ReplayMember(WithList(v, RemoveAt(v.list, i)))

\* Mutant: the action stays in the list.
UndoKeep ==
    LET top == Last(undo)
    IN  /\ undo # <<>>
        /\ wave' = [w \in Waveforms |->
              IF top.cut_ts[w] # Absent THEN CopyOf(top.cut_ts[w])
              ELSE IF w \in On THEN Uncut(wave[w], top.cut) ELSE Absent]
        /\ UNCHANGED <<setup, disk, clipboard, undo, cuts, shown>>

\* undoLastAction, for all waveforms of the display, pasted ones too.
UndoLast ==
    LET top == Last(undo)
    IN  /\ undo # <<>>
        /\ wave' = [w \in Waveforms |->
              IF top.cut_ts[w] # Absent THEN CopyOf(top.cut_ts[w])
              ELSE IF w \in On THEN Uncut(wave[w], top.cut) ELSE Absent]
        /\ undo' = Front(undo)
        /\ UNCHANGED <<setup, disk, clipboard, cuts, shown>>

\* WaveformPlot::clear takes all waveforms and all actions to undo.
Clear ==
    /\ On # {} \/ undo # <<>>
    /\ wave' = Nobody /\ undo' = <<>> /\ shown' = {}
    /\ UNCHANGED <<setup, disk, clipboard, cuts>>

\* The disk with the files, or some of the files, go or come back.
Mount ==
    /\ disk' \in setup.disks \ {disk}
    /\ UNCHANGED <<setup, wave, clipboard, undo, cuts, shown>>

Next ==
    \/ \E w \in On : Apply(w) \/ RemoveMethods(w) \/ Normal(w) \/ RemoveRow(w) \/ RemoveAllMethods(w)
                     \/ CopyWaveform(w)
    \/ \E w \in On, b \in setup.bands : ChangeFilter(w, b) \/ AddFilter(w, b)
    \/ RotateWaveforms \/ Unrotate
    \/ \E P, D \in SUBSET On : CutWaveforms(P, D)
    \/ PasteData \/ UndoLast \/ Clear \/ Mount

Spec == Init /\ [][Next]_vars

-----------------------------------------------------------------------------
(* What the history promises *)

TypeOK ==
    /\ setup \in Setups
    /\ wave \in [Waveforms -> TimeSeries \cup {Absent}]
    /\ disk \in {"all", "part", "none"}
    /\ clipboard \in TimeSeries \cup {Absent}
    /\ undo \in Seq(UndoCut)
    /\ cuts \in 0..MaxCuts
    /\ shown \subseteq Waveforms

\* "A GTimeSeries object maintains an ordered list of all DataMethod instances
\* that have been applied to its data": what is displayed is the raw data with
\* the methods of the list, in their order, unless the last replay met one of
\* five cases.  It stopped at a RotateData made for an object that is gone; it
\* was removeMethod's, or stopped at a cut, and a cut remains; it stopped because
\* only a part of the data could be read; it was the group's, of other lists; it
\* was the group's, and did not come to this one.
HistoryTellsData == \A w \in On : LET v == wave[w] IN
    /\ v.raw # "none" /\ v.wrong = "no" => v.done = v.list
    /\ v.raw = "none" => v.done = <<>>
    /\ v.wrong = "stuck" => Rotated(v.list) /\ ~v.own
    /\ v.wrong = "torn" => Has(v.list, "CutData")
    /\ v.wrong = "unread" => v.raw = "part"

\* "This copy will be used when reread() is called, instead re-reading the
\* data": a beam does not turn into its first element, unless it lost the copy
\* to a cut or as a part that was copied.
OwnData == \A w \in On : LET v == wave[w] IN
    /\ v.raw = "element" => v.derived /\ ~v.copy
    /\ v.raw = "own" /\ v.derived /\ ~v.copy =>
           Has(v.list, "CutData") \/ Has(v.list, "CopyData")

\* "always make the rotation the first operation": there is one at most, in the
\* list as in the data.
RotateFirst == \A w \in On : \A list \in {wave[w].list, wave[w].done} :
    \A i \in 2..Len(list) : list[i].type # "RotateData"

\* A waveform taken away is in one action to undo, until it is displayed again.
Recoverable == \A w \in Waveforms :
    Cardinality({i \in DOMAIN undo : undo[i].cut_ts[w] # Absent} \cup IF w \in On THEN {0} ELSE {})
        = IF w \in shown THEN 1 ELSE 0

\* A cut of a waveform as it was read can be undone: list and data are as
\* before.  (With an earlier cut, a rotation, or in a beam they are not.)
CutUndone == \A w \in On : LET v == wave[w] IN
    /\ disk = "all" /\ v.raw = "own" /\ v.wrong = "no" /\ ~v.derived
    /\ ~Has(v.list, "CutData") /\ ~Rotated(v.list)
    => Uncut(Window(v, Cut(cuts + 1)), cuts + 1) = v

\* An action undone leaves nothing of its cut in any list, nor in the data but
\* where another waveform's list was replayed.
UndoneIsGone == [][UndoLast => \A w \in Waveforms : wave'[w] # Absent =>
    LET n == Last(undo).cut IN
    /\ \A i \in DOMAIN wave'[w].list : wave'[w].list[i] # Cut(n)
    /\ wave'[w].wrong \notin {"mixed", "left"} =>
           \A i \in DOMAIN wave'[w].done : wave'[w].done[i] # Cut(n)]_vars
=============================================================================
