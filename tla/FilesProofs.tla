----------------------------- MODULE FilesProofs -----------------------------
(***************************************************************************)
(* Proofs about Files, for any number of tabs, editors, directories and    *)
(* files: the rows of a file tab are of its directory, no file of the      *)
(* server and no text goes unless the user gave it up, a saved file reads  *)
(* back as it was saved, and every session has a tab.                      *)
(*                                                                         *)
(* File tabs and editors share the dialog only, so the invariant has a     *)
(* part for each, and a part that says what the question shown is about.   *)
(***************************************************************************)
EXTENDS Files, SequenceTheorems, TLAPS

-----------------------------------------------------------------------------
(* The invariant: file tabs                                                *)

Tab == [pc : {"none", "connecting", "stat", "online", "error", "closed"},
        open : BOOLEAN, cwd : Dirs, history : Seq(Dirs), at : Nat \ {0},
        shown : Dirs \cup {"nothing"}, rows : SUBSET Paths,
        selected : SUBSET Paths, failed : BOOLEAN]
Task == [kind : {"none", "paste", "drop"}, mode : {"none", "copy", "cut"},
         from : FTabs \cup {"none"}, paths : SUBSET Paths, todo : SUBSET Paths,
         into : Dirs \cup {"cwd"}, failed : BOOLEAN]
Clip == [mode : {"none", "copy", "cut"}, tab : FTabs \cup {"none"}, paths : SUBSET Paths]

TabTypes ==
    /\ ft \in [FTabs -> Tab] /\ sftp \subseteq FTabs /\ listing \in [FTabs -> Seq(Dirs)]
    /\ \A t \in FTabs : Len(listing[t]) <= MaxCalls
    /\ crossed \subseteq FTabs /\ late \subseteq FTabs

ServerTypes ==
    /\ clip \in Clip /\ paste \in [FTabs -> Task] /\ erase \in [FTabs -> SUBSET Paths]
    /\ \A t \in FTabs : /\ paste[t].todo \subseteq paste[t].paths
                        /\ paste[t].kind = "drop" => paste[t].into \in Dirs
    /\ DOMAIN fs \subseteq Paths /\ \A p \in DOMAIN fs : fs[p] \in FirstFiles
    /\ asked \subseteq Paths /\ accounted \subseteq FirstFiles

(* A tab x with the listings ls under way: it is where its history says,   *)
(* a listing that nothing overtook is of that directory, and so are the    *)
(* rows when it has come.                                                  *)
Shows(x, ls, cross) ==
    /\ x.at \in 1..Len(x.history) /\ x.history[x.at] = x.cwd
    /\ Len(ls) > 1 => cross
    /\ ~cross /\ Len(ls) = 1 => ls[1] = x.cwd
    /\ x.open /\ x.pc = "online" /\ ls = <<>> /\ ~x.failed /\ ~cross => x.shown = x.cwd

(* A tab x, and whether it has a session and was closed too early.         *)
Owned(x, ls, session, early) ==
    /\ session => x.pc \in {"stat", "online"} /\ (x.open \/ early)
    /\ x.open /\ x.pc \in {"stat", "online"} => session
    /\ x.pc = "connecting" => x.open \/ early
    /\ ls # <<>> => x.open /\ session

TabsFit ==
    \A t \in FTabs :
        /\ Shows(ft[t], listing[t], t \in crossed)
        /\ Owned(ft[t], listing[t], t \in sftp, t \in late)

(* What is deleted was asked about.                                        *)
Consented == \A t \in FTabs : erase[t] \subseteq asked

TabInv == TabTypes /\ TabsFit

ServerInv == ServerTypes /\ Consented /\ NothingLost

-----------------------------------------------------------------------------
(* The invariant: editors                                                  *)

Text == Nat \X BOOLEAN
Content == [text : Text, enc : Encodings \cup {"gone"}, bom : BOOLEAN]
SaveCall == [step : {"write", "rename"}, data : Content, from : {"panel", "dialog"}]
Editor == [pc : {"none", "asking", "connecting", "reading", "online", "error", "closed"},
           open : BOOLEAN, path : EditorPaths \cup {"none"}, text : Text,
           enc : Encodings, bom : BOOLEAN, dirty : BOOLEAN, late : BOOLEAN]

EditorTypes ==
    /\ ed \in [Editors -> Editor] /\ editorSftp \subseteq Editors
    /\ file \in [EditorPaths -> Content] /\ saves \in [Editors -> Seq(SaveCall)]
    /\ \A e \in Editors : Len(saves[e]) <= MaxSaves
    /\ reopening \in [Editors -> {Unforced, "utf-8", "gbk"}]
    /\ closing \in [tab : Editors \cup {"none"}, saving : BOOLEAN]
    /\ texts \in Nat /\ behind \subseteq Editors
    /\ wasted \subseteq 0..texts /\ abandoned \subseteq EditorPaths

(* What can be written as it is, and read again without being told how.    *)
Readable(x) == x.enc \in {"utf-8", "utf-16"} /\ (x.enc = "utf-16" => x.bom)

(* The file of editor x, as f is the server's, is what x shows.            *)
Matches(x, f) == f # Gone /\ Decode(f, x.enc).text = x.text

(* The calls under way of editor x: its tab waits for them.                *)
Phases(x, ss, re, session) ==
    /\ x.pc # "none" => x.path \in EditorPaths
    /\ x.pc \notin {"online", "closed"} => x.text[1] = 0 /\ ~x.dirty /\ re = Unforced
    /\ x.pc = "none" => ~x.open
    /\ x.pc = "online" => x.open
    /\ x.pc = "closed" => ~x.open
    /\ x.pc # "online" => ss = <<>>
    /\ x.pc \in {"asking", "connecting"} \/ session => x.open \/ x.late
    /\ x.enc = "utf-16" => x.bom
    /\ x.bom => x.enc # "gbk"

(* The text that a save carries is that of the editor, or was given up;    *)
(* and as long as nothing came between, a save is the only one, of what    *)
(* the editor has, and a clean editor has what the server has.             *)
Carried(x, ss, lost) ==
    \A i \in DOMAIN ss :
        /\ Readable(ss[i].data)
        /\ ss[i].data.text[1] \in lost \cup {0, x.text[1]}

Current(x, ss, f) ==
    x.pc = "online" =>
        /\ ~x.dirty => Matches(x, f)
        /\ ss # <<>> => x.dirty /\ Len(ss) = 1 /\ ss[1].data = Encode(x)

EditorsFit ==
    \A e \in Editors :
        /\ ed[e].text[1] <= texts
        /\ Phases(ed[e], saves[e], reopening[e], e \in editorSftp)
        /\ Carried(ed[e], saves[e], wasted)
        /\ e \notin behind => Current(ed[e], saves[e], file[ed[e].path])

(* What the server has.                                                    *)
FilesFit ==
    \A p \in EditorPaths :
        /\ file[p].text[1] <= texts
        /\ file[p] # Gone => file[p].enc \in Encodings
        /\ file[p].bom => file[p].enc # "gbk"
        /\ file[p].text[1] # 0 => Readable(file[p])

Closing == closing.tab # "none" => ed[closing.tab].pc = "online"

EInv ==
    /\ EditorTypes /\ EditorsFit /\ FilesFit /\ Closing
    /\ WrittenKept /\ RemovedComesBack

-----------------------------------------------------------------------------
(* The invariant: the question shown                                       *)

Questions == {"nobody", "settings", "alert", "delete", "rename", "large", "reopen"}

Asked ==
    /\ dialog.by \in Questions
    /\ dialog.by \in {"delete", "rename"} => dialog.paths \subseteq Paths
    /\ dialog.by \in {"large", "reopen"} => dialog.tab \in Editors
    /\ dialog.by = "large" => ed[dialog.tab].pc = "asking"
    /\ dialog.by = "reopen" =>
          /\ dialog.paths \in {{"utf-8"}, {"gbk"}}
          /\ ed[dialog.tab].pc \in {"online", "closed"}

IInv == TabInv /\ ServerInv /\ EInv /\ Asked

-----------------------------------------------------------------------------
(* Sequences                                                               *)

LEMMA Removed ==
    ASSUME NEW S, NEW s \in Seq(S), NEW i \in 1..Len(s)
    PROVE  LET r == SubSeq(s, 1, i - 1) \o SubSeq(s, i + 1, Len(s)) IN
           /\ r \in Seq(S) /\ Len(r) = Len(s) - 1
           /\ \A j \in 1..Len(r) : r[j] = s[IF j < i THEN j ELSE j + 1]
<1>. DEFINE a == SubSeq(s, 1, i - 1)
            b == SubSeq(s, i + 1, Len(s))
<1>1. Len(s) \in Nat
  OBVIOUS
<1>2. /\ a \in Seq(S) /\ Len(a) = i - 1
      /\ \A j \in 1..i - 1 : a[j] = s[j]
  <2>1. \A j \in 1..i - 1 : j \in 1..Len(s)
    BY <1>1
  <2>. QED
    BY <1>1, <2>1, SubSeqProperties
<1>3. /\ b \in Seq(S) /\ Len(b) = Len(s) - i
      /\ \A j \in 1..Len(s) - i : b[j] = s[i + j]
  <2>1. \A j \in i + 1..Len(s) : j \in 1..Len(s)
    BY <1>1
  <2>. QED
    BY <1>1, <2>1, SubSeqProperties
<1>. HIDE DEF a, b
<1>4. /\ a \o b \in Seq(S) /\ Len(a \o b) = Len(a) + Len(b)
      /\ \A j \in 1..Len(a) + Len(b) : (a \o b)[j] = IF j <= Len(a) THEN a[j] ELSE b[j - Len(a)]
  BY <1>2, <1>3, ConcatProperties
<1>. DEFINE r == a \o b
<1>. HIDE DEF r
<1>5. r \in Seq(S) /\ Len(r) = Len(s) - 1
  BY <1>1, <1>2, <1>3, <1>4 DEF r
<1>6. ASSUME NEW j \in 1..Len(r) PROVE r[j] = s[IF j < i THEN j ELSE j + 1]
  <2>1. r[j] = IF j <= Len(a) THEN a[j] ELSE b[j - Len(a)]
    BY <1>1, <1>2, <1>3, <1>4, <1>5 DEF r
  <2>. QED
    BY <1>1, <1>2, <1>3, <1>5, <2>1
<1>. QED
  BY <1>5, <1>6 DEF r, a, b

LEMMA Sole == ASSUME NEW n \in Nat, n <= 1, NEW i \in 1..n PROVE n = 1 /\ i = 1
OBVIOUS

LEMMA First == \A n : n = 1 => 1 \in 1..n
OBVIOUS

LEMMA Extended ==
    ASSUME NEW S, NEW s \in Seq(S), NEW x \in S
    PROVE  /\ Append(s, x) \in Seq(S) /\ Len(Append(s, x)) = Len(s) + 1 /\ Len(s) \in Nat
           /\ \A i \in 1..Len(s) : Append(s, x)[i] = s[i]
           /\ Append(s, x)[Len(s) + 1] = x
           /\ s = <<>> <=> Len(s) = 0
BY EmptySeq

(* What is in front of a place of the history, and a directory after it.   *)
LEMMA Past ==
    ASSUME NEW S, NEW s \in Seq(S), NEW n \in 1..Len(s), NEW x \in S
    PROVE  /\ SubSeq(s, 1, n) \o <<x>> \in Seq(S)
           /\ Len(SubSeq(s, 1, n) \o <<x>>) = n + 1
           /\ (SubSeq(s, 1, n) \o <<x>>)[n + 1] = x
<1>1. \A j \in 1..n : j \in 1..Len(s)
  OBVIOUS
<1>2. SubSeq(s, 1, n) \in Seq(S) /\ Len(SubSeq(s, 1, n)) = n
  BY <1>1, SubSeqProperties
<1>3. <<x>> \in Seq(S) /\ Len(<<x>>) = 1 /\ <<x>>[1] = x
  OBVIOUS
<1>. DEFINE a == SubSeq(s, 1, n)
            b == <<x>>
<1>. HIDE DEF a, b
<1>4. a \o b \in Seq(S) /\ Len(a \o b) = n + 1 /\ (a \o b)[n + 1] = b[1]
  BY <1>2, <1>3, ConcatProperties DEF a, b
<1>. QED
  BY <1>3, <1>4 DEF a, b

-----------------------------------------------------------------------------
(* File tabs                                                               *)

tabPart == <<ft, sftp, listing, crossed, late>>

LEMMA TabsKept == TabInv /\ UNCHANGED tabPart => TabInv'
BY DEF TabInv, TabTypes, TabsFit, Shows, Owned, tabPart

(* Only tab t changes, and fits afterwards.                                *)
LEMMA OneTab ==
    ASSUME TabInv, NEW t \in FTabs, NEW x \in Tab, NEW ls \in Seq(Dirs), Len(ls) <= MaxCalls,
           ft' = [ft EXCEPT ![t] = x], listing' = [listing EXCEPT ![t] = ls],
           sftp' \subseteq FTabs, crossed' \subseteq FTabs, late' \subseteq FTabs,
           \A u \in FTabs \ {t} : /\ u \in sftp' <=> u \in sftp
                                  /\ u \in crossed' <=> u \in crossed
                                  /\ u \in late' <=> u \in late,
           Shows(x, ls, t \in crossed'), Owned(x, ls, t \in sftp', t \in late')
    PROVE  TabInv'
<1>1. TabTypes'
  BY DEF TabInv, TabTypes
<1>2. ft'[t] = x /\ listing'[t] = ls
  BY DEF TabInv, TabTypes
<1>3. \A u \in FTabs : u # t => ft'[u] = ft[u] /\ listing'[u] = listing[u]
  BY DEF TabInv, TabTypes
<1>4. ASSUME NEW u \in FTabs
      PROVE  Shows(ft'[u], listing'[u], u \in crossed') /\ Owned(ft'[u], listing'[u], u \in sftp', u \in late')
  <2>1. CASE u = t
    BY <1>2, <2>1
  <2>2. CASE u # t
    BY <1>3, <2>2 DEF TabInv, TabsFit, Shows, Owned
  <2>. QED
    BY <2>1, <2>2
<1>. QED
  BY <1>1, <1>4 DEF TabInv, TabsFit

LEMMA TabFacts ==
    ASSUME TabInv, NEW t \in FTabs
    PROVE  /\ ft[t] \in Tab /\ listing[t] \in Seq(Dirs) /\ Len(listing[t]) \in Nat
           /\ Len(listing[t]) <= MaxCalls
           /\ ft \in [FTabs -> Tab] /\ listing \in [FTabs -> Seq(Dirs)]
           /\ sftp \subseteq FTabs /\ crossed \subseteq FTabs /\ late \subseteq FTabs
           /\ Shows(ft[t], listing[t], t \in crossed)
           /\ Owned(ft[t], listing[t], t \in sftp, t \in late)
           /\ Len(ft[t].history) \in Nat
BY DEF TabInv, TabTypes, TabsFit, Tab

(* refreshFileTab of a tab that has become x: where there is a session,    *)
(* the listing asked for is of the directory of x.                         *)
LEMMA RefreshKeeps ==
    ASSUME TabInv, NEW t \in FTabs, NEW x \in Tab, Refresh(t, x), UNCHANGED <<sftp, late>>,
           x.at \in 1..Len(x.history), x.history[x.at] = x.cwd,
           Owned(x, listing[t], t \in sftp, t \in late)
    PROVE  TabInv'
<1>. USE TabFacts
<1>1. CASE t \in sftp /\ x.open
  <2>. DEFINE ls == Append(listing[t], x.cwd)
              y == [x EXCEPT !.failed = FALSE]
  <2>1. /\ Len(listing[t]) < MaxCalls /\ listing' = [listing EXCEPT ![t] = ls]
        /\ ft' = [ft EXCEPT ![t] = y]
        /\ crossed' = IF listing[t] = <<>> THEN crossed \ {t} ELSE crossed \cup {t}
    BY <1>1 DEF Refresh
  <2>2. /\ ls \in Seq(Dirs) /\ Len(ls) = Len(listing[t]) + 1 /\ ls[Len(listing[t]) + 1] = x.cwd
        /\ listing[t] = <<>> <=> Len(listing[t]) = 0
    BY Extended DEF Tab
  <2>3. y \in Tab /\ \A f \in {"pc", "open", "cwd", "at", "history"} : y[f] = x[f]
    BY DEF Tab
  <2>. HIDE DEF y, ls
  <2>4. Len(ls) <= MaxCalls /\ ls # <<>>
    <3>1. Len(<<>>) = 0 /\ MaxCalls \in Nat
      BY FileAssumption
    <3>. QED
      BY <2>1, <2>2, <3>1
  <2>5. Shows(y, ls, t \in crossed')
    <3>1. CASE listing[t] = <<>>
      BY <2>1, <2>2, <2>3, <2>4, <3>1 DEF Shows
    <3>2. CASE listing[t] # <<>>
      <4>1. t \in crossed'
        BY <2>1, <3>2
      <4>. QED
        BY <2>2, <2>3, <2>4, <4>1 DEF Shows
    <3>. QED
      BY <3>1, <3>2
  <2>6. Owned(y, ls, t \in sftp', t \in late')
    BY <1>1, <2>3 DEF Owned
  <2>. QED
    BY <2>1, <2>2, <2>3, <2>4, <2>5, <2>6, OneTab
<1>2. CASE ~(t \in sftp /\ x.open)
  <2>1. ft' = [ft EXCEPT ![t] = x] /\ UNCHANGED <<listing, crossed>>
    BY <1>2 DEF Refresh
  <2>2. listing[t] = <<>>
    BY <1>2 DEF Owned
  <2>3. Shows(x, listing[t], t \in crossed')
    <3>1. Len(listing[t]) = 0
      BY <2>2
    <3>2. ~(x.open /\ x.pc = "online")
      BY <1>2 DEF Owned
    <3>. QED
      BY <3>1, <3>2 DEF Shows
  <2>4. listing' = [listing EXCEPT ![t] = listing[t]]
    BY <2>1
  <2>. QED
    BY <2>1, <2>3, <2>4, OneTab
<1>. QED
  BY <1>1, <1>2

-----------------------------------------------------------------------------
(* The actions of file tabs: the tabs                                      *)

LEMMA NewTab ==
    /\ NoTab \in Tab /\ NoTab.at = 1 /\ NoTab.history = <<Root>> /\ NoTab.cwd = Root /\ ~NoTab.open
    /\ \A d \in Dirs : <<d>> \in Seq(Dirs) /\ Len(<<d>>) = 1 /\ <<d>>[1] = d
<1>1. \A d \in Dirs : <<d>> \in Seq(Dirs) /\ Len(<<d>>) = 1 /\ <<d>>[1] = d
  OBVIOUS
<1>2. Root \in Dirs /\ <<Root>> \in Seq(Dirs)
  BY FileAssumption
<1>. DEFINE h == <<Root>>
<1>. HIDE DEF h
<1>3. NoTab = [pc |-> "none", open |-> FALSE, cwd |-> Root, history |-> h,
               at |-> 1, shown |-> "nothing", rows |-> {}, selected |-> {}, failed |-> FALSE]
  BY DEF NoTab, h
<1>4. h \in Seq(Dirs)
  BY <1>2 DEF h
<1>5. NoTab \in Tab /\ NoTab.at = 1 /\ NoTab.history = h /\ NoTab.cwd = Root /\ ~NoTab.open
  BY <1>2, <1>3, <1>4 DEF Tab
<1>. QED
  BY <1>1, <1>5 DEF h

LEMMA OpenFileTabTabs ==
    ASSUME TabInv, NEW t \in FTabs, NEW d \in Dirs, OpenFileTab(t, d)
    PROVE  TabInv'
<1>. DEFINE h == <<d>>
            x == [[[[NoTab EXCEPT !.pc = "connecting"] EXCEPT !.open = TRUE]
                     EXCEPT !.cwd = d] EXCEPT !.history = h]
<1>1. ft[t].pc = "none" /\ ft' = [ft EXCEPT ![t] = x] /\ UNCHANGED <<sftp, listing, crossed, late>>
  BY DEF OpenFileTab
<1>2. h \in Seq(Dirs) /\ Len(h) = 1 /\ h[1] = d
  BY NewTab
<1>. HIDE DEF h
<1>3. x \in Tab /\ x.at = 1 /\ x.history = h /\ x.cwd = d /\ x.pc = "connecting" /\ x.open
  BY <1>2, NewTab DEF Tab
<1>. HIDE DEF x
<1>4. t \notin sftp /\ listing[t] = <<>>
  BY <1>1, TabFacts DEF Owned
<1>. DEFINE ls == listing[t]
<1>5. Len(ls) = 0 /\ ls \in Seq(Dirs) /\ Len(ls) <= MaxCalls /\ listing' = [listing EXCEPT ![t] = ls]
  BY <1>1, <1>4, TabFacts
<1>6. ls = <<>>
  BY <1>4
<1>. HIDE DEF ls
<1>7. Shows(x, ls, t \in crossed') /\ Owned(x, ls, t \in sftp', t \in late')
  <2>1. x.at \in 1..Len(x.history) /\ x.history[x.at] = x.cwd
    BY <1>2, <1>3, First
  <2>2. ~(Len(ls) > 1) /\ Len(ls) # 1
    BY <1>5
  <2>3. x.pc = "connecting" /\ x.pc # "online" /\ x.pc \notin {"stat", "online"}
    BY <1>3
  <2>4. Shows(x, ls, t \in crossed')
    BY <2>1, <2>2, <2>3 DEF Shows
  <2>5. Owned(x, ls, t \in sftp', t \in late')
    BY <1>1, <1>3, <1>4, <1>6, <2>3 DEF Owned
  <2>. QED
    BY <2>4, <2>5
<1>. QED
  BY <1>1, <1>3, <1>5, <1>7, OneTab, TabFacts

(* A tab of which only the phase, the rows or the marks change.            *)
LEMMA PhaseKeeps ==
    ASSUME TabInv, NEW t \in FTabs, NEW x \in Tab, ft' = [ft EXCEPT ![t] = x],
           x.cwd = ft[t].cwd /\ x.at = ft[t].at /\ x.history = ft[t].history /\ x.open = ft[t].open,
           x.shown = ft[t].shown /\ x.failed = ft[t].failed,
           x.pc = "online" => ft[t].pc = "online",
           UNCHANGED <<listing, crossed, late>>, sftp' \subseteq FTabs,
           \A u \in FTabs \ {t} : u \in sftp' <=> u \in sftp,
           Owned(x, listing[t], t \in sftp', t \in late)
    PROVE  TabInv'
<1>1. listing' = [listing EXCEPT ![t] = listing[t]]
  BY TabFacts
<1>2. Shows(x, listing[t], t \in crossed')
  BY TabFacts DEF Shows
<1>. QED
  BY <1>1, <1>2, OneTab, TabFacts

LEMMA ConnectedTabs ==
    ASSUME TabInv, NEW t \in FTabs, Connected(t)
    PROVE  TabInv'
<1>. DEFINE x == [ft[t] EXCEPT !.pc = "stat"]
<1>1. /\ ft[t].pc = "connecting" /\ ft' = [ft EXCEPT ![t] = x] /\ sftp' = sftp \cup {t}
      /\ UNCHANGED <<listing, crossed, late>>
  BY DEF Connected
<1>2. /\ x \in Tab /\ x.pc = "stat" /\ x.open = ft[t].open /\ x.cwd = ft[t].cwd
      /\ x.at = ft[t].at /\ x.history = ft[t].history /\ x.shown = ft[t].shown
      /\ x.failed = ft[t].failed
  BY TabFacts DEF Tab
<1>. HIDE DEF x
<1>3. Owned(x, listing[t], t \in sftp', t \in late)
  BY <1>1, <1>2, TabFacts DEF Owned
<1>4. sftp' \subseteq FTabs /\ \A u \in FTabs \ {t} : u \in sftp' <=> u \in sftp
  BY <1>1, TabFacts
<1>. QED
  BY <1>1, <1>2, <1>3, <1>4, PhaseKeeps

LEMMA NotConnectedTabs ==
    ASSUME TabInv, NEW t \in FTabs, NotConnected(t)
    PROVE  TabInv'
<1>. DEFINE x == [[ft[t] EXCEPT !.pc = "error"] EXCEPT !.failed = TRUE]
<1>1. /\ ft[t].pc = "connecting" /\ ft' = [ft EXCEPT ![t] = x]
      /\ UNCHANGED <<sftp, listing, crossed, late>>
  BY DEF NotConnected
<1>2. /\ x \in Tab /\ x.pc = "error" /\ x.open = ft[t].open /\ x.cwd = ft[t].cwd
      /\ x.at = ft[t].at /\ x.history = ft[t].history
  BY TabFacts DEF Tab
<1>. HIDE DEF x
<1>3. Shows(x, listing[t], t \in crossed') /\ Owned(x, listing[t], t \in sftp', t \in late')
  BY <1>1, <1>2, TabFacts DEF Shows, Owned
<1>4. listing' = [listing EXCEPT ![t] = listing[t]]
  BY <1>1, TabFacts
<1>. QED
  BY <1>1, <1>2, <1>3, <1>4, OneTab, TabFacts

LEMMA StatTabs ==
    ASSUME TabInv, NEW t \in FTabs, NEW there \in BOOLEAN, Stat(t, there)
    PROVE  TabInv'
<1>. DEFINE x == Statted(t, ft[t], there)
<1>1. ft[t].pc = "stat" /\ t \in sftp /\ Refresh(t, x) /\ UNCHANGED <<sftp, late>>
  BY DEF Stat
<1>3. /\ x \in Tab /\ x.pc = "online" /\ x.open = ft[t].open
      /\ x.at \in 1..Len(x.history) /\ x.history[x.at] = x.cwd
  <2>1. CASE there
    BY <2>1, TabFacts DEF Statted, Tab, Shows
  <2>2. CASE ~there
    <3>. DEFINE h == <<Root>>
                y == [[[[ft[t] EXCEPT !.pc = "online"] EXCEPT !.cwd = Root] EXCEPT !.history = h]
                         EXCEPT !.at = 1]
    <3>1. x = y
      BY <2>2 DEF Statted
    <3>2. h \in Seq(Dirs) /\ Len(h) = 1 /\ h[1] = Root /\ Root \in Dirs
      BY NewTab, FileAssumption
    <3>. HIDE DEF h
    <3>3. y \in Tab /\ y.pc = "online" /\ y.open = ft[t].open /\ y.at = 1 /\ y.history = h /\ y.cwd = Root
      <4>1. ft[t] \in Tab
        BY TabFacts
      <4>2. 1 \in Nat \ {0}
        OBVIOUS
      <4>. HIDE DEF x
      <4>. QED
        BY <3>2, <4>1, <4>2 DEF Tab
    <3>. HIDE DEF x, y
    <3>. QED
      BY <3>1, <3>2, <3>3, First
  <2>. QED
    BY <2>1, <2>2
<1>. HIDE DEF x
<1>4. Owned(x, listing[t], t \in sftp, t \in late)
  BY <1>1, <1>3, TabFacts DEF Owned
<1>. QED
  BY <1>1, <1>3, <1>4, RefreshKeeps

(* A listing that ends leaves the others.                                  *)
LEMMA ListingEnds ==
    ASSUME TabInv, NEW t \in FTabs, NEW i \in DOMAIN listing[t], NEW x \in Tab,
           ft' = [ft EXCEPT ![t] = x],
           listing' = [listing EXCEPT ![t] = SubSeq(@, 1, i - 1) \o SubSeq(@, i + 1, Len(@))],
           UNCHANGED <<sftp, crossed, late>>,
           x.cwd = ft[t].cwd /\ x.at = ft[t].at /\ x.history = ft[t].history,
           x.open = ft[t].open /\ x.pc = ft[t].pc,
           x.failed \/ x.shown = listing[t][i]
    PROVE  TabInv'
<1>. DEFINE ls == SubSeq(listing[t], 1, i - 1) \o SubSeq(listing[t], i + 1, Len(listing[t]))
<1>0. i \in 1..Len(listing[t])
  BY TabFacts
<1>1. /\ ls \in Seq(Dirs) /\ Len(ls) = Len(listing[t]) - 1
      /\ \A j \in 1..Len(ls) : ls[j] = listing[t][IF j < i THEN j ELSE j + 1]
  BY <1>0, Removed, TabFacts
<1>2. listing' = [listing EXCEPT ![t] = ls]
  BY TabFacts
<1>. HIDE DEF ls
<1>3. ls = <<>> <=> Len(ls) = 0
  BY <1>1, EmptySeq
<1>4. listing[t] # <<>>
  BY <1>0
<1>5. Shows(x, ls, t \in crossed')
  <2>1. CASE t \in crossed
    BY <1>1, <2>1, TabFacts DEF Shows
  <2>2. CASE t \notin crossed
    <3>0. Len(listing[t]) <= 1 /\ (Len(listing[t]) = 1 => listing[t][1] = ft[t].cwd)
      BY <2>2, TabFacts DEF Shows
    <3>1. Len(listing[t]) \in Nat
      BY TabFacts
    <3>3. Len(listing[t]) = 1 /\ i = 1
      BY <1>0, <3>0, <3>1, Sole
    <3>2. Len(ls) = 0
      BY <1>1, <3>3
    <3>. QED
      BY <2>2, <3>0, <3>2, <3>3, TabFacts DEF Shows
  <2>. QED
    BY <2>1, <2>2
<1>6. Owned(x, ls, t \in sftp', t \in late')
  BY <1>4, TabFacts DEF Owned
<1>7. Len(ls) <= MaxCalls
  BY <1>1, TabFacts, FileAssumption
<1>. QED
  BY <1>1, <1>2, <1>5, <1>6, <1>7, OneTab, TabFacts

LEMMA ListedTabs ==
    ASSUME TabInv, ServerInv, NEW t \in FTabs, NEW i, Listed(t, i)
    PROVE  TabInv'
<1>. DEFINE x == [[ft[t] EXCEPT !.shown = listing[t][i]] EXCEPT !.rows = InDir(listing[t][i])]
<1>1. /\ i \in DOMAIN listing[t] /\ ft' = [ft EXCEPT ![t] = x]
      /\ listing' = [listing EXCEPT ![t] = SubSeq(@, 1, i - 1) \o SubSeq(@, i + 1, Len(@))]
      /\ UNCHANGED <<sftp, crossed, late>>
  BY DEF Listed
<1>2. InDir(listing[t][i]) \subseteq Paths
  BY DEF InDir, ServerInv, ServerTypes
<1>3. listing[t][i] \in Dirs
  BY <1>1, TabFacts
<1>4. /\ x \in Tab /\ x.pc = ft[t].pc /\ x.open = ft[t].open /\ x.cwd = ft[t].cwd
      /\ x.at = ft[t].at /\ x.history = ft[t].history /\ x.shown = listing[t][i]
  BY <1>2, <1>3, TabFacts DEF Tab
<1>. HIDE DEF x
<1>. QED
  BY <1>1, <1>4, ListingEnds

LEMMA ListFailsTabs ==
    ASSUME TabInv, NEW t \in FTabs, NEW i, ListFails(t, i)
    PROVE  TabInv'
<1>. DEFINE x == [ft[t] EXCEPT !.failed = TRUE]
<1>1. /\ i \in DOMAIN listing[t] /\ ft' = [ft EXCEPT ![t] = x]
      /\ listing' = [listing EXCEPT ![t] = SubSeq(@, 1, i - 1) \o SubSeq(@, i + 1, Len(@))]
      /\ UNCHANGED <<sftp, crossed, late>>
  BY DEF ListFails
<1>2. /\ x \in Tab /\ x.pc = ft[t].pc /\ x.open = ft[t].open /\ x.cwd = ft[t].cwd
      /\ x.at = ft[t].at /\ x.history = ft[t].history /\ x.failed
  BY TabFacts DEF Tab
<1>. HIDE DEF x
<1>. QED
  BY <1>1, <1>2, ListingEnds

LEMMA CloseFileTabTabs ==
    ASSUME TabInv, NEW t \in FTabs, CloseFileTab(t)
    PROVE  TabInv'
<1>. DEFINE x == [NoTab EXCEPT !.pc = IF ft[t].pc = "connecting" THEN "connecting" ELSE "closed"]
<1>1. /\ ft' = [ft EXCEPT ![t] = x] /\ listing' = [listing EXCEPT ![t] = <<>>]
      /\ sftp' = sftp \ {t} /\ UNCHANGED crossed
      /\ late' = IF ft[t].pc = "connecting" THEN late \cup {t} ELSE late
  BY DEF CloseFileTab, DropsSession
<1>. DEFINE h == <<Root>>
<1>2. h \in Seq(Dirs) /\ Len(h) = 1 /\ h[1] = Root
  BY NewTab, FileAssumption
<1>3. /\ x \in Tab /\ x.at = 1 /\ x.history = h /\ x.cwd = Root /\ ~x.open
      /\ x.pc = IF ft[t].pc = "connecting" THEN "connecting" ELSE "closed"
  BY NewTab DEF Tab
<1>. HIDE DEF x, h
<1>. DEFINE ls == <<>>
<1>4. ls \in Seq(Dirs) /\ Len(ls) = 0 /\ Len(ls) <= MaxCalls
      /\ listing' = [listing EXCEPT ![t] = ls] /\ ls = <<>>
  BY <1>1, FileAssumption
<1>. HIDE DEF ls
<1>5. Shows(x, ls, t \in crossed')
  <2>1. x.at \in 1..Len(x.history) /\ x.history[x.at] = x.cwd
    BY <1>2, <1>3, First
  <2>2. ~(Len(ls) > 1) /\ Len(ls) # 1
    BY <1>4
  <2>. QED
    BY <1>3, <2>1, <2>2 DEF Shows
<1>6. Owned(x, ls, t \in sftp', t \in late')
  BY <1>1, <1>3, <1>4 DEF Owned
<1>7. sftp' \subseteq FTabs /\ late' \subseteq FTabs
      /\ \A u \in FTabs \ {t} : (u \in sftp' <=> u \in sftp) /\ (u \in late' <=> u \in late)
  BY <1>1, TabFacts
<1>. QED
  BY <1>1, <1>3, <1>4, <1>5, <1>6, <1>7, OneTab, TabFacts

LEMMA NavigateTabs ==
    ASSUME TabInv, NEW t \in FTabs, NEW d \in Dirs, Navigate(t, d)
    PROVE  TabInv'
<1>. DEFINE past == SubSeq(ft[t].history, 1, ft[t].at) \o <<d>>
            x == [[[[ft[t] EXCEPT !.history = past] EXCEPT !.at = Len(past)]
                     EXCEPT !.cwd = d] EXCEPT !.selected = {}]
<1>1. ft[t].open /\ Refresh(t, x) /\ UNCHANGED <<sftp, late>>
  BY DEF Navigate, InTab
<1>2. ft[t].at \in 1..Len(ft[t].history) /\ ft[t].history \in Seq(Dirs)
  BY TabFacts DEF Shows, Tab
<1>. DEFINE s == ft[t].history
            n == ft[t].at
<1>. HIDE DEF s, n
<1>3. past \in Seq(Dirs) /\ Len(past) = n + 1 /\ past[n + 1] = d
  <2>1. s \in Seq(Dirs) /\ n \in 1..Len(s)
    BY <1>2 DEF s, n
  <2>2. past = SubSeq(s, 1, n) \o <<d>>
    BY DEF s, n
  <2>. HIDE DEF past, x
  <2>. QED
    BY <2>1, <2>2, Past
<1>. USE DEF s, n
<1>. HIDE DEF past
<1>4. ft[t].at + 1 \in Nat \ {0}
  BY <1>2
<1>5. /\ x \in Tab /\ x.at = Len(past) /\ x.history = past /\ x.cwd = d
      /\ x.open = ft[t].open /\ x.pc = ft[t].pc
  BY <1>3, <1>4, TabFacts DEF Tab
<1>. HIDE DEF x
<1>6. x.at \in 1..Len(x.history) /\ x.history[x.at] = x.cwd
  BY <1>3, <1>4, <1>5
<1>7. Owned(x, listing[t], t \in sftp, t \in late)
  BY <1>5, TabFacts DEF Owned
<1>. QED
  BY <1>1, <1>5, <1>6, <1>7, RefreshKeeps

LEMMA StepsTabs ==
    ASSUME TabInv, NEW t \in FTabs, NEW k \in {-1, 1}, ft[t].at + k \in 1..Len(ft[t].history),
           Steps(t, k), UNCHANGED <<sftp, late>>
    PROVE  TabInv'
<1>. DEFINE x == [[ft[t] EXCEPT !.at = ft[t].at + k] EXCEPT !.cwd = ft[t].history[ft[t].at + k]]
<1>1. Refresh(t, x)
  BY DEF Steps
<1>2. ft[t].history \in Seq(Dirs) /\ ft[t].at + k \in Nat \ {0}
  BY TabFacts DEF Tab
<1>3. ft[t].history[ft[t].at + k] \in Dirs
  BY <1>2
<1>4. /\ x \in Tab /\ x.at = ft[t].at + k /\ x.history = ft[t].history
      /\ x.cwd = ft[t].history[ft[t].at + k] /\ x.open = ft[t].open /\ x.pc = ft[t].pc
  BY <1>2, <1>3, TabFacts DEF Tab
<1>. HIDE DEF x
<1>5. Owned(x, listing[t], t \in sftp, t \in late)
  BY <1>4, TabFacts DEF Owned
<1>. QED
  BY <1>1, <1>4, <1>5, RefreshKeeps

(* A refresh of a tab of which at most the selection changes.              *)
LEMMA RefreshTabs ==
    ASSUME TabInv, NEW t \in FTabs,
           Refresh(t, ft[t]) \/ Refresh(t, [ft[t] EXCEPT !.selected = {}]),
           UNCHANGED <<sftp, late>>
    PROVE  TabInv'
<1>. DEFINE x == [ft[t] EXCEPT !.selected = {}]
<1>1. CASE Refresh(t, ft[t])
  BY <1>1, TabFacts, RefreshKeeps DEF Shows
<1>2. CASE Refresh(t, x)
  <2>1. /\ x \in Tab /\ x.at = ft[t].at /\ x.history = ft[t].history /\ x.cwd = ft[t].cwd
        /\ x.open = ft[t].open /\ x.pc = ft[t].pc
    BY TabFacts DEF Tab
  <2>. HIDE DEF x
  <2>2. x.at \in 1..Len(x.history) /\ x.history[x.at] = x.cwd
    BY <2>1, TabFacts DEF Shows
  <2>3. Owned(x, listing[t], t \in sftp, t \in late)
    BY <2>1, TabFacts DEF Owned
  <2>. QED
    BY <1>2, <2>1, <2>2, <2>3, RefreshKeeps
<1>. QED
  BY <1>1, <1>2

LEMMA SelectTabs ==
    ASSUME TabInv, NEW t \in FTabs, NEW p \in Paths, NEW more \in BOOLEAN, Select(t, p, more)
    PROVE  TabInv'
<1>. DEFINE chosen == IF ~more THEN {p} ELSE IF p \in ft[t].selected THEN ft[t].selected \ {p}
                                             ELSE ft[t].selected \cup {p}
            x == [ft[t] EXCEPT !.selected = chosen]
<1>1. ft' = [ft EXCEPT ![t] = x] /\ UNCHANGED <<sftp, listing, crossed, late>>
  BY DEF Select
<1>2. chosen \in SUBSET Paths
  BY TabFacts DEF Tab
<1>. HIDE DEF chosen
<1>3. /\ x \in Tab /\ x.pc = ft[t].pc /\ x.open = ft[t].open /\ x.cwd = ft[t].cwd
      /\ x.at = ft[t].at /\ x.history = ft[t].history /\ x.shown = ft[t].shown
      /\ x.failed = ft[t].failed
  BY <1>2, TabFacts DEF Tab
<1>. HIDE DEF x
<1>4. Owned(x, listing[t], t \in sftp', t \in late)
  BY <1>1, <1>3, TabFacts DEF Owned
<1>. QED
  BY <1>1, <1>3, <1>4, PhaseKeeps, TabFacts

-----------------------------------------------------------------------------
(* The actions of file tabs: the server, the clipboard and the tasks       *)

serverPart == <<clip, paste, erase, fs, asked, accounted>>

LEMMA ServerKept == ServerInv /\ UNCHANGED serverPart => ServerInv'
BY DEF ServerInv, ServerTypes, Consented, NothingLost, serverPart

LEMMA ServerFacts ==
    ASSUME ServerInv
    PROVE  /\ clip \in Clip /\ paste \in [FTabs -> Task] /\ erase \in [FTabs -> SUBSET Paths]
           /\ asked \subseteq Paths
           /\ DOMAIN fs \subseteq Paths /\ \A p \in DOMAIN fs : fs[p] \in FirstFiles
           /\ accounted \subseteq FirstFiles /\ NothingLost
           /\ \A t \in FTabs : /\ paste[t] \in Task /\ paste[t].todo \subseteq paste[t].paths
                               /\ paste[t].kind = "drop" => paste[t].into \in Dirs
                               /\ erase[t] \subseteq asked
<1>1. /\ clip \in Clip /\ paste \in [FTabs -> Task] /\ erase \in [FTabs -> SUBSET Paths]
      /\ asked \subseteq Paths
      /\ DOMAIN fs \subseteq Paths /\ \A p \in DOMAIN fs : fs[p] \in FirstFiles
      /\ accounted \subseteq FirstFiles
      /\ \A t \in FTabs : /\ paste[t].todo \subseteq paste[t].paths
                          /\ paste[t].kind = "drop" => paste[t].into \in Dirs
  BY DEF ServerInv, ServerTypes
<1>2. NothingLost /\ \A t \in FTabs : erase[t] \subseteq asked
  BY DEF ServerInv, Consented
<1>3. \A t \in FTabs : paste[t] \in Task
  BY <1>1
<1>4. ASSUME NEW t \in FTabs
      PROVE  /\ paste[t] \in Task /\ paste[t].todo \subseteq paste[t].paths
             /\ paste[t].kind = "drop" => paste[t].into \in Dirs
             /\ erase[t] \subseteq asked
  BY <1>1, <1>2, <1>3
<1>. QED
  BY <1>1, <1>2, <1>4, Zenon

(* What is on the server, and what has gone from it.                       *)
Stored ==
    /\ DOMAIN fs \subseteq Paths /\ \A p \in DOMAIN fs : fs[p] \in FirstFiles
    /\ accounted \subseteq FirstFiles /\ NothingLost

LEMMA StoredNow == ServerInv => Stored
BY ServerFacts DEF Stored

LEMMA MovesStored ==
    ASSUME Stored, NEW p, NEW q \in Paths, Moves(p, q)
    PROVE  Stored'
<1>1. /\ p \in DOMAIN fs /\ q \notin DOMAIN fs /\ accounted' = accounted
      /\ fs' = [r \in (DOMAIN fs \ {p}) \cup {q} |-> IF r = q THEN fs[p] ELSE fs[r]]
  BY DEF Moves, CanMove
<1>2. /\ DOMAIN fs' = (DOMAIN fs \ {p}) \cup {q} /\ fs'[q] = fs[p]
      /\ \A r \in DOMAIN fs \ {p} : fs'[r] = fs[r]
  BY <1>1
<1>3. \A r \in DOMAIN fs : fs[r] \in Range(fs')
  BY <1>2 DEF Range
<1>4. Range(fs) \subseteq Range(fs')
  BY <1>3 DEF Range
<1>. QED
  BY <1>1, <1>2, <1>4 DEF Stored, NothingLost

LEMMA CopiesStored ==
    ASSUME Stored, NEW p, NEW q \in Paths, Copies(p, q)
    PROVE  Stored'
<1>1. /\ p \in DOMAIN fs /\ accounted' = accounted \cup {fs[r] : r \in DOMAIN fs \cap {q}}
      /\ fs' = [r \in DOMAIN fs \cup {q} |-> IF r = q THEN fs[p] ELSE fs[r]]
  BY DEF Copies
<1>2. /\ DOMAIN fs' = DOMAIN fs \cup {q} /\ fs'[q] = fs[p]
      /\ \A r \in DOMAIN fs : r # q => fs'[r] = fs[r]
  BY <1>1
<1>3. ASSUME NEW r \in DOMAIN fs PROVE fs[r] \in Range(fs') \cup accounted'
  <2>1. CASE r = q
    BY <1>1, <2>1
  <2>2. CASE r # q
    BY <1>2, <2>2 DEF Range
  <2>. QED
    BY <2>1, <2>2
<1>4. Range(fs) \subseteq Range(fs') \cup accounted'
  BY <1>3 DEF Range
<1>5. accounted \subseteq accounted' /\ accounted' \subseteq FirstFiles
  BY <1>1 DEF Stored
<1>6. \A r \in DOMAIN fs' : r \in Paths /\ fs'[r] \in FirstFiles
  BY <1>1, <1>2 DEF Stored
<1>. QED
  BY <1>4, <1>5, <1>6 DEF Stored, NothingLost

LEMMA RemovesStored ==
    ASSUME Stored, NEW p \in DOMAIN fs, Removes(p), accounted' = accounted \cup {fs[p]}
    PROVE  Stored'
<1>1. /\ DOMAIN fs' = DOMAIN fs \ {p} /\ \A r \in DOMAIN fs \ {p} : fs'[r] = fs[r]
  BY DEF Removes, Restrict
<1>2. \A r \in DOMAIN fs : fs[r] \in Range(fs') \cup accounted'
  BY <1>1 DEF Range
<1>3. Range(fs) \subseteq Range(fs') \cup accounted'
  BY <1>2 DEF Range
<1>. QED
  BY <1>1, <1>3 DEF Stored, NothingLost

LEMMA StoredKept == Stored /\ UNCHANGED <<fs, accounted>> => Stored'
BY DEF Stored, NothingLost

(* The tasks, the clipboard and what is to be deleted.                     *)
LEMMA OneTask ==
    ASSUME ServerInv, Stored', NEW t \in FTabs, NEW x \in Task, paste' = [paste EXCEPT ![t] = x],
           x.todo \subseteq x.paths, x.kind = "drop" => x.into \in Dirs,
           clip' \in Clip, UNCHANGED <<erase, asked>>
    PROVE  ServerInv'
<1>1. paste' \in [FTabs -> Task]
  BY ServerFacts
<1>2. ASSUME NEW u \in FTabs
      PROVE  paste'[u].todo \subseteq paste'[u].paths /\ (paste'[u].kind = "drop" => paste'[u].into \in Dirs)
  <2>1. CASE u = t
    BY <2>1, ServerFacts
  <2>2. CASE u # t
    <3>1. paste'[u] = paste[u]
      BY <2>2, ServerFacts
    <3>. QED
      BY <3>1, ServerFacts
  <2>. QED
    BY <2>1, <2>2
<1>. QED
  BY <1>1, <1>2, ServerFacts DEF ServerInv, ServerTypes, Consented, Stored

LEMMA NewTask ==
    /\ NoTask \in Task /\ NoTask.kind = "none" /\ NoTask.todo = {} /\ NoTask.paths = {}
    /\ NoTask.into = "cwd" /\ NoClip \in Clip
BY DEF NoTask, NoClip, Task, Clip

LEMMA CopySelectedServer ==
    ASSUME TabInv, ServerInv, NEW t \in FTabs, NEW mode \in {"copy", "cut"}, CopySelected(t, mode)
    PROVE  ServerInv'
<1>1. /\ clip' = [mode |-> mode, tab |-> t, paths |-> ft[t].selected \cap ft[t].rows]
      /\ UNCHANGED <<paste, erase, fs, asked, accounted>>
  BY DEF CopySelected
<1>2. ft[t].selected \cap ft[t].rows \in SUBSET Paths
  BY TabFacts DEF Tab
<1>3. clip' \in Clip
  BY <1>1, <1>2 DEF Clip
<1>. QED
  BY <1>1, <1>3 DEF ServerInv, ServerTypes, Consented, NothingLost

LEMMA PasteServer ==
    ASSUME ServerInv, NEW t \in FTabs, Paste(t)
    PROVE  ServerInv'
<1>. DEFINE x == [[[[[NoTask EXCEPT !.kind = "paste"] EXCEPT !.mode = clip.mode]
                       EXCEPT !.from = clip.tab] EXCEPT !.paths = clip.paths] EXCEPT !.todo = clip.paths]
<1>1. paste' = [paste EXCEPT ![t] = x] /\ UNCHANGED <<clip, erase, fs, asked, accounted>>
  BY DEF Paste
<1>2. /\ clip.mode \in {"none", "copy", "cut"} /\ clip.tab \in FTabs \cup {"none"}
      /\ clip.paths \in SUBSET Paths
  BY ServerFacts DEF Clip
<1>3. x \in Task /\ x.kind = "paste" /\ x.paths = clip.paths /\ x.todo = clip.paths
  BY <1>2, NewTask DEF Task
<1>. HIDE DEF x
<1>4. Stored'
  BY <1>1, StoredNow, StoredKept
<1>. QED
  BY <1>1, <1>3, <1>4, OneTask, ServerFacts

LEMMA DropOnServer ==
    ASSUME TabInv, ServerInv, NEW t \in FTabs, NEW u \in FTabs, NEW d \in Dirs, DropOn(t, u, d)
    PROVE  ServerInv'
<1>. DEFINE ps == ft[u].selected
            x == [[[[[[NoTask EXCEPT !.kind = "drop"] EXCEPT !.mode = "cut"] EXCEPT !.from = u]
                       EXCEPT !.into = d] EXCEPT !.paths = ps] EXCEPT !.todo = ps]
<1>1. paste' = [paste EXCEPT ![t] = x] /\ UNCHANGED <<clip, erase, fs, asked, accounted>>
  BY DEF DropOn
<1>2. ps \in SUBSET Paths
  BY TabFacts DEF Tab
<1>. HIDE DEF ps
<1>3. x \in Task /\ x.kind = "drop" /\ x.paths = ps /\ x.todo = ps /\ x.into = d
  BY <1>2, NewTask DEF Task
<1>. HIDE DEF x
<1>4. Stored'
  BY <1>1, StoredNow, StoredKept
<1>. QED
  BY <1>1, <1>3, <1>4, OneTask, ServerFacts

LEMMA PasteOneServer ==
    ASSUME TabInv, ServerInv, NEW t \in FTabs, NEW p \in Paths, PasteOne(t, p)
    PROVE  ServerInv'
<1>. DEFINE x == [paste[t] EXCEPT !.todo = paste[t].todo \ {p}]
<1>1. /\ PutsDown(t, p) /\ paste' = [paste EXCEPT ![t] = x]
      /\ UNCHANGED <<clip, erase, asked>>
  BY ServerFacts DEF PasteOne
<1>2. /\ x \in Task /\ x.paths = paste[t].paths /\ x.todo \subseteq paste[t].todo
      /\ x.kind = paste[t].kind /\ x.into = paste[t].into
  BY ServerFacts DEF Task
<1>. HIDE DEF x
<1>3. Destination(t, p) \in Paths
  <2>1. p[2] \in Names /\ ft[t].cwd \in Dirs
    BY TabFacts DEF Tab, Paths
  <2>2. paste[t].kind = "drop" => paste[t].into \in Dirs
    BY ServerFacts
  <2>. QED
    BY <2>1, <2>2 DEF Destination, Placed, Paths
<1>4. Stored'
  BY <1>1, <1>3, StoredNow, MovesStored, CopiesStored DEF PutsDown
<1>. QED
  BY <1>1, <1>2, <1>4, OneTask, ServerFacts

LEMMA PasteEndsServer ==
    ASSUME ServerInv, NEW t \in FTabs, PasteEnds(t)
    PROVE  ServerInv'
<1>1. /\ paste' = [paste EXCEPT ![t] = NoTask] /\ UNCHANGED <<erase, fs, asked, accounted>>
      /\ clip' \in {clip, NoClip}
  BY DEF PasteEnds
<1>2. clip' \in Clip
  BY <1>1, NewTask, ServerFacts
<1>3. Stored'
  BY <1>1, StoredNow, StoredKept
<1>. QED
  BY <1>1, <1>2, <1>3, NewTask, OneTask

LEMMA PasteFailsServer ==
    ASSUME ServerInv, NEW t \in FTabs, PasteFails(t)
    PROVE  ServerInv'
<1>. DEFINE y == [[paste[t] EXCEPT !.kind = "none"] EXCEPT !.failed = TRUE]
            x == IF paste[t].kind = "drop" THEN NoTask ELSE y
<1>1. paste' = [paste EXCEPT ![t] = x] /\ UNCHANGED <<clip, erase, fs, asked, accounted>>
  BY ServerFacts DEF PasteFails
<1>2. y \in Task /\ y.kind = "none" /\ y.paths = paste[t].paths /\ y.todo = paste[t].todo
  BY ServerFacts DEF Task
<1>. HIDE DEF y
<1>3. x \in Task /\ x.todo \subseteq x.paths /\ x.kind = "none"
  BY <1>2, NewTask, ServerFacts
<1>. HIDE DEF x
<1>4. Stored'
  BY <1>1, StoredNow, StoredKept
<1>. QED
  BY <1>1, <1>3, <1>4, OneTask, ServerFacts

LEMMA RetryPasteServer ==
    ASSUME ServerInv, NEW t \in FTabs, RetryPaste(t)
    PROVE  ServerInv'
<1>. DEFINE x == [[paste[t] EXCEPT !.kind = "paste"] EXCEPT !.todo = paste[t].paths]
<1>1. paste' = [paste EXCEPT ![t] = x] /\ UNCHANGED <<clip, erase, fs, asked, accounted>>
  BY ServerFacts DEF RetryPaste
<1>2. x \in Task /\ x.kind = "paste" /\ x.paths = paste[t].paths /\ x.todo = paste[t].paths
  BY ServerFacts DEF Task
<1>. HIDE DEF x
<1>3. Stored'
  BY <1>1, StoredNow, StoredKept
<1>. QED
  BY <1>1, <1>2, <1>3, OneTask, ServerFacts

(* What one tab has still to delete changes.                               *)
LEMMA OneErasure ==
    ASSUME ServerInv, Stored', NEW t \in FTabs, NEW es \in SUBSET Paths,
           erase' = [erase EXCEPT ![t] = es], es \subseteq asked', asked \subseteq asked',
           asked' \subseteq Paths, UNCHANGED <<clip, paste>>
    PROVE  ServerInv'
<1>1. erase' \in [FTabs -> SUBSET Paths]
  BY ServerFacts
<1>2. ASSUME NEW u \in FTabs PROVE erase'[u] \subseteq asked'
  <2>1. CASE u = t
    BY <2>1, ServerFacts
  <2>2. CASE u # t
    <3>1. erase'[u] = erase[u]
      BY <2>2, ServerFacts
    <3>. QED
      BY <3>1, ServerFacts
  <2>. QED
    BY <2>1, <2>2
<1>. QED
  BY <1>1, <1>2, ServerFacts DEF ServerInv, ServerTypes, Consented, Stored

LEMMA AnswerDeleteServer ==
    ASSUME ServerInv, Asked, NEW t \in FTabs, NEW ok \in BOOLEAN, AnswerDelete(t, ok)
    PROVE  ServerInv'
<1>1. /\ dialog.paths \subseteq Paths /\ UNCHANGED <<clip, paste, fs, accounted>>
      /\ \/ /\ erase' = [erase EXCEPT ![t] = dialog.paths]
            /\ asked' = asked \cup dialog.paths
         \/ UNCHANGED <<erase, asked>>
  BY DEF AnswerDelete, Asked, Erased
<1>2. Stored'
  BY <1>1, StoredNow, StoredKept
<1>3. CASE erase' = [erase EXCEPT ![t] = dialog.paths] /\ asked' = asked \cup dialog.paths
  BY <1>1, <1>2, <1>3, OneErasure, ServerFacts
<1>4. CASE UNCHANGED <<erase, asked>>
  BY <1>1, <1>4, ServerKept DEF serverPart
<1>. QED
  BY <1>1, <1>3, <1>4

LEMMA EraseOneServer ==
    ASSUME ServerInv, NEW t \in FTabs, NEW p \in Paths, EraseOne(t, p)
    PROVE  ServerInv'
<1>1. p \in erase[t] /\ p \in asked /\ UNCHANGED <<clip, paste, asked>>
  BY ServerFacts DEF EraseOne
<1>2. CASE p \in DOMAIN fs
  <2>1. /\ Removes(p) /\ accounted' = accounted \cup {fs[p]}
        /\ erase' = [erase EXCEPT ![t] = erase[t] \ {p}]
    BY <1>1, <1>2, ServerFacts DEF EraseOne
  <2>2. Stored'
    BY <1>2, <2>1, StoredNow, RemovesStored
  <2>3. erase[t] \ {p} \in SUBSET Paths /\ erase[t] \ {p} \subseteq asked'
    BY <1>1, ServerFacts
  <2>. QED
    BY <1>1, <2>1, <2>2, <2>3, OneErasure, ServerFacts
<1>3. CASE p \notin DOMAIN fs
  <2>1. erase' = [erase EXCEPT ![t] = {}] /\ UNCHANGED <<fs, accounted>>
    BY <1>3 DEF EraseOne
  <2>2. Stored'
    BY <2>1, StoredNow, StoredKept
  <2>. DEFINE es == {}
  <2>3. es \in SUBSET Paths /\ es \subseteq asked' /\ erase' = [erase EXCEPT ![t] = es]
    BY <2>1
  <2>. HIDE DEF es
  <2>. QED
    BY <1>1, <2>2, <2>3, OneErasure, ServerFacts
<1>. QED
  BY <1>2, <1>3

LEMMA AnswerRenameServer ==
    ASSUME ServerInv, NEW t \in FTabs, NEW n \in Names, AnswerRename(t, n)
    PROVE  ServerInv'
<1>. DEFINE p == CHOOSE q \in dialog.paths : TRUE
<1>1. /\ UNCHANGED <<clip, paste, erase, asked>>
      /\ (CanMove(p, <<p[1], n>>) /\ Moves(p, <<p[1], n>>)) \/ UNCHANGED <<fs, accounted>>
  BY DEF AnswerRename
<1>. HIDE DEF p
<1>2. CASE CanMove(p, <<p[1], n>>) /\ Moves(p, <<p[1], n>>)
  <2>1. p \in Paths
    BY <1>2, ServerFacts DEF CanMove
  <2>2. <<p[1], n>> \in Paths
    BY <2>1 DEF Paths
  <2>3. Stored'
    BY <1>2, <2>2, StoredNow, MovesStored
  <2>. QED
    BY <1>1, <2>3 DEF ServerInv, ServerTypes, Consented, Stored
<1>3. CASE UNCHANGED <<fs, accounted>>
  BY <1>1, <1>3, ServerKept DEF serverPart
<1>. QED
  BY <1>1, <1>2, <1>3

-----------------------------------------------------------------------------
(* The steps of file tabs                                                  *)

LEMMA FileTabsStep ==
    ASSUME TabInv, ServerInv, FileNext
    PROVE  TabInv'
<1>. PICK t \in FTabs :
        \/ \E d \in Dirs : OpenFileTab(t, d) \/ Navigate(t, d)
        \/ Connected(t) \/ NotConnected(t)
        \/ \E b \in BOOLEAN : Stat(t, b) \/ AnswerDelete(t, b)
        \/ \E i \in 1..MaxCalls : Listed(t, i) \/ ListFails(t, i)
        \/ CloseFileTab(t)
        \/ NavigateParent(t) \/ GoBack(t) \/ GoForward(t) \/ RefreshTab(t)
        \/ \E p \in Paths :
              \/ \E b \in BOOLEAN : Select(t, p, b)
              \/ PasteOne(t, p) \/ EraseOne(t, p)
        \/ \E m \in {"copy", "cut"} : CopySelected(t, m)
        \/ Paste(t) \/ PasteEnds(t) \/ PasteFails(t) \/ RetryPaste(t)
        \/ \E u \in FTabs, d \in Dirs : DropOn(t, u, d)
        \/ AskDelete(t) \/ AskRename(t) \/ CancelRename(t)
        \/ \E n \in Names : AnswerRename(t, n)
  BY DEF FileNext, Paths
<1>1. ASSUME NEW d \in Dirs, OpenFileTab(t, d) \/ Navigate(t, d) PROVE TabInv'
  BY <1>1, OpenFileTabTabs, NavigateTabs
<1>2. CASE Connected(t) \/ NotConnected(t)
  BY <1>2, ConnectedTabs, NotConnectedTabs
<1>3. ASSUME NEW b \in BOOLEAN, Stat(t, b) PROVE TabInv'
  BY <1>3, StatTabs
<1>4. ASSUME NEW i \in 1..MaxCalls, Listed(t, i) \/ ListFails(t, i) PROVE TabInv'
  BY <1>4, ListedTabs, ListFailsTabs
<1>5. CASE CloseFileTab(t)
  BY <1>5, CloseFileTabTabs
<1>6. CASE NavigateParent(t)
  BY <1>6, NavigateTabs, FileAssumption DEF NavigateParent
<1>7. CASE GoBack(t)
  <2>1. ft[t].at > 1 /\ Steps(t, -1) /\ UNCHANGED <<sftp, late>>
    BY <1>7 DEF GoBack
  <2>2. ft[t].at \in 1..Len(ft[t].history) /\ Len(ft[t].history) \in Nat
    BY TabFacts DEF Shows
  <2>3. ft[t].at + (-1) \in 1..Len(ft[t].history)
    BY <2>1, <2>2
  <2>. QED
    BY <2>1, <2>3, StepsTabs
<1>8. CASE GoForward(t)
  <2>1. ft[t].at < Len(ft[t].history) /\ Steps(t, 1) /\ UNCHANGED <<sftp, late>>
    BY <1>8 DEF GoForward
  <2>2. ft[t].at \in 1..Len(ft[t].history) /\ Len(ft[t].history) \in Nat
    BY TabFacts DEF Shows
  <2>3. ft[t].at + 1 \in 1..Len(ft[t].history)
    BY <2>1, <2>2
  <2>. QED
    BY <2>1, <2>3, StepsTabs
<1>9. CASE RefreshTab(t)
  BY <1>9, RefreshTabs DEF RefreshTab
<1>10. ASSUME NEW p \in Paths, NEW b \in BOOLEAN, Select(t, p, b) PROVE TabInv'
  BY <1>10, SelectTabs
<1>11. ASSUME NEW p \in Paths, EraseOne(t, p) PROVE TabInv'
  <2>1. /\ Refresh(t, [ft[t] EXCEPT !.selected = {}]) \/ UNCHANGED <<ft, listing, crossed>>
        /\ UNCHANGED <<sftp, late>>
    BY <1>11 DEF EraseOne
  <2>. QED
    BY <2>1, RefreshTabs, TabsKept DEF tabPart
<1>12. CASE PasteEnds(t)
  <2>1. /\ Refresh(t, ft[t]) \/ UNCHANGED <<ft, listing, crossed>>
        /\ UNCHANGED <<sftp, late>>
    BY <1>12 DEF PasteEnds
  <2>. QED
    BY <2>1, RefreshTabs, TabsKept DEF tabPart
<1>13. ASSUME NEW n \in Names, AnswerRename(t, n) PROVE TabInv'
  <2>1. /\ Refresh(t, ft[t]) \/ UNCHANGED <<ft, listing, crossed>>
        /\ UNCHANGED <<sftp, late>>
    BY <1>13 DEF AnswerRename
  <2>. QED
    BY <2>1, RefreshTabs, TabsKept DEF tabPart
<1>14. ASSUME \/ \E b \in BOOLEAN : AnswerDelete(t, b)
              \/ \E p \in Paths : PasteOne(t, p)
              \/ \E m \in {"copy", "cut"} : CopySelected(t, m)
              \/ Paste(t) \/ PasteFails(t) \/ RetryPaste(t)
              \/ \E u \in FTabs, d \in Dirs : DropOn(t, u, d)
              \/ AskDelete(t) \/ AskRename(t) \/ CancelRename(t)
       PROVE  TabInv'
  <2>1. UNCHANGED tabPart
    BY <1>14 DEF AnswerDelete, PasteOne, CopySelected, Paste, PasteFails, RetryPaste, DropOn,
                 AskDelete, AskRename, CancelRename, fileVars, tabPart
  <2>. QED
    BY <2>1, TabsKept
<1>. QED
  BY <1>1, <1>2, <1>3, <1>4, <1>5, <1>6, <1>7, <1>8, <1>9, <1>10, <1>11, <1>12, <1>13, <1>14

LEMMA FileServerStep ==
    ASSUME TabInv, ServerInv, Asked, FileNext
    PROVE  ServerInv'
<1>. PICK t \in FTabs :
        \/ \E d \in Dirs : OpenFileTab(t, d) \/ Navigate(t, d)
        \/ Connected(t) \/ NotConnected(t)
        \/ \E b \in BOOLEAN : Stat(t, b) \/ AnswerDelete(t, b)
        \/ \E i \in 1..MaxCalls : Listed(t, i) \/ ListFails(t, i)
        \/ CloseFileTab(t)
        \/ NavigateParent(t) \/ GoBack(t) \/ GoForward(t) \/ RefreshTab(t)
        \/ \E p \in Paths :
              \/ \E b \in BOOLEAN : Select(t, p, b)
              \/ PasteOne(t, p) \/ EraseOne(t, p)
        \/ \E m \in {"copy", "cut"} : CopySelected(t, m)
        \/ Paste(t) \/ PasteEnds(t) \/ PasteFails(t) \/ RetryPaste(t)
        \/ \E u \in FTabs, d \in Dirs : DropOn(t, u, d)
        \/ AskDelete(t) \/ AskRename(t) \/ CancelRename(t)
        \/ \E n \in Names : AnswerRename(t, n)
  BY DEF FileNext, Paths
<1>1. ASSUME NEW b \in BOOLEAN, AnswerDelete(t, b) PROVE ServerInv'
  BY <1>1, AnswerDeleteServer
<1>2. ASSUME NEW p \in Paths, PasteOne(t, p) \/ EraseOne(t, p) PROVE ServerInv'
  BY <1>2, PasteOneServer, EraseOneServer
<1>3. ASSUME NEW m \in {"copy", "cut"}, CopySelected(t, m) PROVE ServerInv'
  BY <1>3, CopySelectedServer
<1>4. CASE Paste(t) \/ PasteEnds(t) \/ PasteFails(t) \/ RetryPaste(t)
  BY <1>4, PasteServer, PasteEndsServer, PasteFailsServer, RetryPasteServer
<1>5. ASSUME NEW u \in FTabs, NEW d \in Dirs, DropOn(t, u, d) PROVE ServerInv'
  BY <1>5, DropOnServer
<1>6. ASSUME NEW n \in Names, AnswerRename(t, n) PROVE ServerInv'
  BY <1>6, AnswerRenameServer
<1>7. ASSUME \/ \E d \in Dirs : OpenFileTab(t, d) \/ Navigate(t, d)
             \/ Connected(t) \/ NotConnected(t)
             \/ \E b \in BOOLEAN : Stat(t, b)
             \/ \E i \in 1..MaxCalls : Listed(t, i) \/ ListFails(t, i)
             \/ CloseFileTab(t)
             \/ NavigateParent(t) \/ GoBack(t) \/ GoForward(t) \/ RefreshTab(t)
             \/ \E p \in Paths, b \in BOOLEAN : Select(t, p, b)
             \/ AskDelete(t) \/ AskRename(t) \/ CancelRename(t)
      PROVE  ServerInv'
  <2>1. UNCHANGED serverPart
    BY <1>7 DEF OpenFileTab, Navigate, Connected, NotConnected, Stat, Listed, ListFails, CloseFileTab,
                NavigateParent, GoBack, GoForward, RefreshTab, Select, AskDelete, AskRename,
                CancelRename, fileVars, serverPart
  <2>. QED
    BY <2>1, ServerKept
<1>. QED
  BY <1>1, <1>2, <1>3, <1>4, <1>5, <1>6, <1>7

(* A question is answered, or one about selected paths asked.              *)
LEMMA FileDialogStep ==
    ASSUME TabInv, FileNext, Asked, UNCHANGED ed
    PROVE  Asked'
<1>1. \A t \in FTabs : ft[t].selected \subseteq Paths
  BY TabFacts DEF Tab
<1>. PICK t \in FTabs :
        \/ \E d \in Dirs : OpenFileTab(t, d) \/ Navigate(t, d)
        \/ Connected(t) \/ NotConnected(t)
        \/ \E b \in BOOLEAN : Stat(t, b) \/ AnswerDelete(t, b)
        \/ \E i \in 1..MaxCalls : Listed(t, i) \/ ListFails(t, i)
        \/ CloseFileTab(t)
        \/ NavigateParent(t) \/ GoBack(t) \/ GoForward(t) \/ RefreshTab(t)
        \/ \E p \in Paths :
              \/ \E b \in BOOLEAN : Select(t, p, b)
              \/ PasteOne(t, p) \/ EraseOne(t, p)
        \/ \E m \in {"copy", "cut"} : CopySelected(t, m)
        \/ Paste(t) \/ PasteEnds(t) \/ PasteFails(t) \/ RetryPaste(t)
        \/ \E u \in FTabs, d \in Dirs : DropOn(t, u, d)
        \/ AskDelete(t) \/ AskRename(t) \/ CancelRename(t)
        \/ \E n \in Names : AnswerRename(t, n)
  BY DEF FileNext, Paths
<1>2. CASE AskDelete(t) \/ AskRename(t)
  <2>1. \/ dialog' = dialog
        \/ dialog' = [by |-> "delete", tab |-> t, paths |-> ft[t].selected]
        \/ dialog' = [by |-> "rename", tab |-> t, paths |-> ft[t].selected]
    BY <1>2 DEF AskDelete, AskRename, Asks
  <2>. QED
    BY <1>1, <2>1 DEF Asked, Questions
<1>3. CASE \/ \E b \in BOOLEAN : AnswerDelete(t, b)
           \/ CancelRename(t)
           \/ \E n \in Names : AnswerRename(t, n)
  <2>1. dialog' = NoQuestion
    BY <1>3 DEF AnswerDelete, CancelRename, AnswerRename, Settles
  <2>. QED
    BY <2>1 DEF Asked, Questions, NoQuestion
<1>4. CASE \/ \E d \in Dirs : OpenFileTab(t, d) \/ Navigate(t, d)
           \/ Connected(t) \/ NotConnected(t)
           \/ \E b \in BOOLEAN : Stat(t, b)
           \/ \E i \in 1..MaxCalls : Listed(t, i) \/ ListFails(t, i)
           \/ CloseFileTab(t)
           \/ NavigateParent(t) \/ GoBack(t) \/ GoForward(t) \/ RefreshTab(t)
           \/ \E p \in Paths :
                 \/ \E b \in BOOLEAN : Select(t, p, b)
                 \/ PasteOne(t, p) \/ EraseOne(t, p)
           \/ \E m \in {"copy", "cut"} : CopySelected(t, m)
           \/ Paste(t) \/ PasteEnds(t) \/ PasteFails(t) \/ RetryPaste(t)
           \/ \E u \in FTabs, d \in Dirs : DropOn(t, u, d)
  <2>1. dialog' = dialog
    BY <1>4 DEF OpenFileTab, Navigate, Connected, NotConnected, Stat, Listed, ListFails,
         CloseFileTab, NavigateParent, GoBack, GoForward, RefreshTab, Select, PasteOne, EraseOne,
         CopySelected, Paste, PasteEnds, PasteFails, RetryPaste, DropOn, dialogVars
  <2>. QED
    BY <2>1 DEF Asked
<1>. QED
  BY <1>2, <1>3, <1>4

-----------------------------------------------------------------------------
(* Texts and files                                                         *)

LEMMA Texts ==
    ASSUME NEW t \in Text
    PROVE  /\ t[1] \in Nat /\ t[2] \in BOOLEAN /\ <<t[1], t[2]>> = t
           /\ \A v \in Nat : [t EXCEPT ![1] = v] \in Text /\ [t EXCEPT ![1] = v][1] = v
           /\ \A b \in BOOLEAN : <<t[1], b>> \in Text /\ <<t[1], b>>[1] = t[1]
BY DEF Text

(* Editor x has taken file f over and become y, which shows what f holds.  *)
TookOver(x, y, f) ==
    /\ y \in Editor /\ y.text[1] = f.text[1] /\ ~y.dirty /\ Matches(y, f)
    /\ y.enc = "utf-16" => y.bom
    /\ y.bom => y.enc # "gbk"
    /\ y.pc = x.pc /\ y.open = x.open /\ y.path = x.path /\ y.late = x.late

LEMMA LoadedFits ==
    ASSUME NEW x \in Editor, NEW f \in Content, f # Gone, f.enc \in Encodings,
           f.bom => f.enc # "gbk", NEW re \in {Unforced, "utf-8", "gbk"}
    PROVE  TookOver(x, Loaded(x, f, re), f)
<1>. DEFINE n == Effective(f, re)
            w == <<f.text[1], f.text[2] \/ n # f.enc>>
            m == (Signature(f) = n)
            y == [[[[x EXCEPT !.text = w] EXCEPT !.enc = n] EXCEPT !.bom = m] EXCEPT !.dirty = FALSE]
<1>1. f.text \in Text /\ f.bom \in BOOLEAN
  BY DEF Content
<1>2. /\ n \in Encodings /\ n # Unforced
      /\ n = "utf-16" => f.bom /\ f.enc = "utf-16"
      /\ m => f.bom /\ f.enc = n
      /\ m \in BOOLEAN
  BY <1>1 DEF Effective, Signature, Encodings, Unforced
<1>3. n = "utf-16" => m
  BY <1>1, <1>2 DEF Effective, Signature
<1>4. w \in Text /\ w[1] = f.text[1]
  BY <1>1, Texts
<1>5. Effective(f, n) = n
  BY <1>2 DEF Effective
<1>6. Decode(f, n).text = w
  BY <1>5 DEF Decode
<1>7. Loaded(x, f, re) = y
  BY DEF Loaded, Decode
<1>. HIDE DEF n, w, m
<1>8. /\ y \in Editor /\ y.text = w /\ y.enc = n /\ y.bom = m /\ y.dirty = FALSE
      /\ y.pc = x.pc /\ y.open = x.open /\ y.path = x.path /\ y.late = x.late
  BY <1>2, <1>4 DEF Editor
<1>. HIDE DEF y
<1>9. Matches(y, f)
  BY <1>6, <1>8 DEF Matches
<1>. QED
  BY <1>2, <1>3, <1>4, <1>7, <1>8, <1>9 DEF TookOver

(* What is shown matches the file: the same text, and there is a file.     *)
LEMMA MatchesHas ==
    ASSUME NEW x \in Editor, NEW f \in Content, Matches(x, f)
    PROVE  f # Gone /\ f.text[1] = x.text[1]
<1>. DEFINE w == <<f.text[1], f.text[2] \/ Effective(f, x.enc) # f.enc>>
<1>1. Decode(f, x.enc).text = w
  BY DEF Decode
<1>2. w[1] = f.text[1]
  OBVIOUS
<1>. QED
  BY <1>1, <1>2 DEF Matches

(* A file that was written from the text of an editor.                     *)
LEMMA EncodedFits ==
    ASSUME NEW x \in Editor
    PROVE  /\ Encode(x) \in Content /\ Encode(x).text = x.text
           /\ Matches(x, Encode(x))
           /\ CanEncode(x) /\ (x.enc = "utf-16" => x.bom) => Readable(Encode(x))
<1>. DEFINE f == Encode(x)
<1>1. f = [text |-> x.text, enc |-> x.enc, bom |-> x.bom]
  BY DEF Encode
<1>2. f \in Content /\ f.text = x.text /\ f.enc = x.enc /\ f.bom = x.bom /\ x.enc \in Encodings
  BY <1>1 DEF Content, Editor
<1>3. x.text \in Text /\ x.enc # Unforced /\ f # Gone
  <2>1. x.text \in Text /\ x.enc # Unforced /\ x.enc # "gone"
    BY DEF Editor, Encodings, Unforced
  <2>2. Gone.enc = "gone"
    BY DEF Gone
  <2>. QED
    BY <1>2, <2>1, <2>2
<1>. HIDE DEF f
<1>4. Effective(f, x.enc) = x.enc
  BY <1>3 DEF Effective
<1>5. Decode(f, x.enc).text = <<f.text[1], f.text[2] \/ x.enc # f.enc>>
  BY <1>4 DEF Decode
<1>6. <<f.text[1], f.text[2] \/ x.enc # f.enc>> = x.text
  <2>1. <<x.text[1], x.text[2]>> = x.text /\ x.text[2] \in BOOLEAN
    BY <1>3, Texts
  <2>2. (x.text[2] \/ x.enc # f.enc) = x.text[2]
    BY <1>2, <2>1
  <2>. QED
    BY <1>2, <2>1, <2>2
<1>7. Matches(x, f)
  BY <1>3, <1>5, <1>6 DEF Matches
<1>8. CanEncode(x) /\ (x.enc = "utf-16" => x.bom) => Readable(f)
  BY <1>2 DEF CanEncode, Readable, Encodings
<1>. QED
  BY <1>2, <1>7, <1>8 DEF f

(* What is readable reads back as it is.                                   *)
LEMMA ReadableReopens ==
    ASSUME NEW f \in Content, Readable(f)
    PROVE  /\ f # Gone /\ f.enc \in Encodings /\ f.enc # "gbk"
           /\ Decode(f, Unforced).text = f.text /\ Decode(f, Unforced).enc = f.enc
           /\ Decode(f, Unforced).bom = f.bom
<1>1. f.text \in Text /\ f.bom \in BOOLEAN
  BY DEF Content
<1>2. f # Gone /\ f.enc \in Encodings /\ f.enc # "gbk" /\ f.enc # Unforced
  <2>1. f.enc # "gone" /\ Gone.enc = "gone"
    BY DEF Readable, Gone
  <2>. QED
    BY <2>1 DEF Readable, Encodings, Unforced
<1>3. Effective(f, Unforced) = f.enc
  BY <1>1 DEF Effective, Readable
<1>4. (Signature(f) = f.enc) = f.bom
  BY <1>1, <1>2 DEF Signature
<1>5. <<f.text[1], f.text[2] \/ f.enc # f.enc>> = f.text
  <2>1. <<f.text[1], f.text[2]>> = f.text /\ f.text[2] \in BOOLEAN
    BY <1>1, Texts
  <2>2. (f.text[2] \/ f.enc # f.enc) = f.text[2]
    BY <2>1
  <2>. QED
    BY <2>1, <2>2
<1>. QED
  BY <1>2, <1>3, <1>4, <1>5 DEF Decode

LEMMA GoneFacts ==
    Gone \in Content /\ Gone.text[1] = 0 /\ ~Gone.bom
<1>. DEFINE w == <<0, FALSE>>
<1>1. w \in Text /\ w[1] = 0
  BY DEF Text
<1>2. Gone = [text |-> w, enc |-> "gone", bom |-> FALSE]
  BY DEF Gone
<1>. HIDE DEF w
<1>. QED
  BY <1>1, <1>2 DEF Content

-----------------------------------------------------------------------------
(* Editors: what the parts of the invariant need of a step                 *)

LEMMA EditorKept == EInv /\ UNCHANGED editorVars => EInv'
BY DEF EInv, EditorTypes, EditorsFit, Phases, Carried, Current, FilesFit, Closing, WrittenKept,
       RemovedComesBack, InFlight, editorVars

(* All that the invariant says of editor x: its calls ss and re, whether   *)
(* it has a session, what was given up, the file, and whether its clean    *)
(* flag tells the truth.                                                   *)
Fits(x, ss, re, session, lost, f, sure) ==
    /\ Phases(x, ss, re, session)
    /\ Carried(x, ss, lost)
    /\ sure => Current(x, ss, f)

LEMMA EditorFacts ==
    ASSUME EInv, NEW e \in Editors
    PROVE  /\ ed[e] \in Editor /\ saves[e] \in Seq(SaveCall) /\ Len(saves[e]) \in Nat
           /\ Len(saves[e]) <= MaxSaves
           /\ reopening[e] \in {Unforced, "utf-8", "gbk"}
           /\ ed[e].text[1] \in Nat /\ ed[e].text[1] <= texts
           /\ ed[e].open \in BOOLEAN /\ ed[e].dirty \in BOOLEAN /\ ed[e].text \in Text
           /\ Phases(ed[e], saves[e], reopening[e], e \in editorSftp)
           /\ Carried(ed[e], saves[e], wasted)
           /\ e \notin behind => Current(ed[e], saves[e], file[ed[e].path])
<1>1. /\ ed[e] \in Editor /\ saves[e] \in Seq(SaveCall) /\ Len(saves[e]) <= MaxSaves
      /\ reopening[e] \in {Unforced, "utf-8", "gbk"}
  BY DEF EInv, EditorTypes
<1>2. ed[e].open \in BOOLEAN /\ ed[e].dirty \in BOOLEAN /\ ed[e].text \in Text
  BY <1>1 DEF Editor
<1>3. ed[e].text[1] \in Nat
  BY <1>2, Texts
<1>4. Len(saves[e]) \in Nat
  BY <1>1
<1>5. /\ ed[e].text[1] <= texts
      /\ Phases(ed[e], saves[e], reopening[e], e \in editorSftp)
      /\ Carried(ed[e], saves[e], wasted)
      /\ e \notin behind => Current(ed[e], saves[e], file[ed[e].path])
  BY DEF EInv, EditorsFit
<1>. QED
  BY <1>1, <1>2, <1>3, <1>4, <1>5

LEMMA FileFacts ==
    ASSUME EInv, NEW p \in EditorPaths
    PROVE  /\ file[p] \in Content /\ file[p].text \in Text /\ file[p].text[1] \in Nat
           /\ file[p].text[1] <= texts
           /\ file[p] # Gone => file[p].enc \in Encodings
           /\ file[p].bom => file[p].enc # "gbk"
           /\ file[p].text[1] # 0 => Readable(file[p])
<1>1. file[p] \in Content
  BY DEF EInv, EditorTypes
<1>2. file[p].text \in Text
  BY <1>1 DEF Content
<1>3. file[p].text[1] \in Nat
  BY <1>2, Texts
<1>4. /\ file[p].text[1] <= texts
      /\ file[p] # Gone => file[p].enc \in Encodings
      /\ file[p].bom => file[p].enc # "gbk"
      /\ file[p].text[1] # 0 => Readable(file[p])
  BY DEF EInv, FilesFit
<1>. QED
  BY <1>1, <1>2, <1>3, <1>4

VarFacts ==
    /\ ed \in [Editors -> Editor] /\ editorSftp \subseteq Editors
    /\ file \in [EditorPaths -> Content] /\ saves \in [Editors -> Seq(SaveCall)]
    /\ reopening \in [Editors -> {Unforced, "utf-8", "gbk"}]
    /\ closing \in [tab : Editors \cup {"none"}, saving : BOOLEAN]
    /\ texts \in Nat /\ behind \subseteq Editors
    /\ wasted \subseteq 0..texts /\ abandoned \subseteq EditorPaths

LEMMA Variables == EInv => VarFacts
BY DEF EInv, EditorTypes, VarFacts

(* Editor e becomes x with the calls ss and re; the others stay as they    *)
(* are, and may fall behind.                                               *)
OneChanges(e, x, ss, re) ==
    /\ x \in Editor /\ ss \in Seq(SaveCall) /\ Len(ss) <= MaxSaves
    /\ re \in {Unforced, "utf-8", "gbk"}
    /\ ed' = [ed EXCEPT ![e] = x] /\ saves' = [saves EXCEPT ![e] = ss]
    /\ reopening' = [reopening EXCEPT ![e] = re]
    /\ texts' \in Nat /\ texts <= texts'
    /\ wasted \subseteq wasted' /\ wasted' \subseteq 0..texts'
    /\ editorSftp' \subseteq Editors /\ behind' \subseteq Editors
    /\ \A d \in Editors \ {e} : /\ d \in editorSftp' <=> d \in editorSftp
                                /\ d \in behind => d \in behind'
    /\ abandoned \subseteq abandoned' /\ abandoned' \subseteq EditorPaths
    /\ closing' \in [tab : Editors \cup {"none"}, saving : BOOLEAN]
    /\ closing'.tab \in {closing.tab, e, "none"}
    /\ closing'.tab = e => x.pc = "online"
    /\ x.text[1] <= texts'

LEMMA Changed ==
    ASSUME EInv, NEW e \in Editors, NEW x, NEW ss, NEW re, OneChanges(e, x, ss, re)
    PROVE  /\ ed'[e] = x /\ saves'[e] = ss /\ reopening'[e] = re
           /\ \A d \in Editors \ {e} :
                 ed'[d] = ed[d] /\ saves'[d] = saves[d] /\ reopening'[d] = reopening[d]
<1>1. /\ ed \in [Editors -> Editor] /\ saves \in [Editors -> Seq(SaveCall)]
      /\ reopening \in [Editors -> {Unforced, "utf-8", "gbk"}]
  BY Variables DEF VarFacts
<1>2. /\ ed' = [ed EXCEPT ![e] = x] /\ saves' = [saves EXCEPT ![e] = ss]
      /\ reopening' = [reopening EXCEPT ![e] = re]
  BY DEF OneChanges
<1>. QED
  BY <1>1, <1>2

(* Types, the closing dialog and the editors.                              *)
LEMMA OneEditor ==
    ASSUME EInv, NEW e \in Editors, NEW x, NEW ss, NEW re, OneChanges(e, x, ss, re),
           file' \in [EditorPaths -> Content],
           \A d \in Editors \ {e} :
              d \notin behind' /\ ed[d].pc = "online"
              => \/ file'[ed[d].path] = file[ed[d].path]
                 \/ file[ed[d].path] = Gone,
           Fits(x, ss, re, e \in editorSftp', wasted', file'[x.path], e \notin behind')
    PROVE  EditorTypes' /\ EditorsFit' /\ Closing'
<1>0. ed'[e] = x /\ saves'[e] = ss /\ reopening'[e] = re
  BY Changed
<1>. USE DEF OneChanges
<1>1. EditorTypes'
  <2>1. ed' \in [Editors -> Editor]
    BY Variables DEF VarFacts
  <2>2. saves' \in [Editors -> Seq(SaveCall)]
    BY Variables DEF VarFacts
  <2>3. reopening' \in [Editors -> {Unforced, "utf-8", "gbk"}]
    BY Variables DEF VarFacts
  <2>4. ASSUME NEW d \in Editors PROVE Len(saves'[d]) <= MaxSaves
    BY Changed, EditorFacts
  <2>. QED
    BY <2>1, <2>2, <2>3, <2>4 DEF EditorTypes
<1>2. Closing'
  <2>1. CASE closing'.tab = "none"
    BY <2>1 DEF Closing
  <2>2. CASE closing'.tab = e
    BY <2>2, Changed DEF Closing
  <2>3. CASE closing'.tab = closing.tab /\ closing.tab \notin {e, "none"}
    <3>1. closing.tab \in Editors \ {e} /\ ed[closing.tab].pc = "online"
      BY <2>3, Variables DEF VarFacts, EInv, Closing
    <3>. QED
      BY <2>3, <3>1, Changed DEF Closing
  <2>. QED
    BY <2>1, <2>2, <2>3
<1>3. ASSUME NEW d \in Editors
      PROVE  /\ ed'[d].text[1] <= texts'
             /\ Phases(ed'[d], saves'[d], reopening'[d], d \in editorSftp')
             /\ Carried(ed'[d], saves'[d], wasted')
             /\ d \notin behind' => Current(ed'[d], saves'[d], file'[ed'[d].path])
  <2>1. CASE d = e
    <3>2. /\ Phases(ed'[e], saves'[e], reopening'[e], e \in editorSftp')
          /\ Carried(ed'[e], saves'[e], wasted')
          /\ e \notin behind' => Current(ed'[e], saves'[e], file'[ed'[e].path])
      BY <1>0 DEF Fits
    <3>3. ed'[e].text[1] <= texts'
      BY <1>0
    <3>. QED
      BY <2>1, <3>2, <3>3, Zenon
  <2>2. CASE d # e
    <3>1. ed'[d] = ed[d] /\ saves'[d] = saves[d] /\ reopening'[d] = reopening[d]
      BY <2>2, Changed
    <3>2. ed[d].text[1] <= texts'
      BY EditorFacts, Variables DEF VarFacts
    <3>3. Phases(ed[d], saves[d], reopening[d], d \in editorSftp')
      BY <2>2, EditorFacts DEF Phases
    <3>4. Carried(ed[d], saves[d], wasted')
      BY EditorFacts DEF Carried
    <3>5. ASSUME d \notin behind' PROVE Current(ed[d], saves[d], file'[ed[d].path])
      <4>1. Current(ed[d], saves[d], file[ed[d].path])
        BY <2>2, <3>5, EditorFacts
      <4>2. CASE ed[d].pc # "online"
        BY <4>2 DEF Current
      <4>3. CASE ed[d].pc = "online" /\ file'[ed[d].path] = file[ed[d].path]
        BY <4>1, <4>3
      <4>4. CASE ed[d].pc = "online" /\ file[ed[d].path] = Gone
        BY <4>1, <4>4 DEF Current, Matches
      <4>. QED
        BY <2>2, <3>5, <4>2, <4>3, <4>4
    <3>. QED
      BY <3>1, <3>2, <3>3, <3>4, <3>5
  <2>. QED
    BY <2>1, <2>2
<1>. QED
  BY <1>1, <1>2, <1>3 DEF EditorsFit

(* Text v was given up, or is in an editor or on the server.               *)
Somewhere(v) ==
    \/ v \in wasted
    \/ \E e \in Editors : ed[e].open /\ ed[e].text[1] = v
    \/ \E p \in EditorPaths : file[p].text[1] = v

LEMMA OneWritten ==
    ASSUME EInv, NEW e \in Editors, NEW x, NEW ss, NEW re, OneChanges(e, x, ss, re),
           \/ texts' = texts
           \/ texts' = texts + 1 /\ x.open /\ x.text[1] = texts',
           \A v \in Nat : v # 0 /\ ed[e].open /\ ed[e].text[1] = v => Somewhere(v)',
           \A p \in EditorPaths, v \in Nat : v # 0 /\ file[p].text[1] = v => Somewhere(v)'
    PROVE  WrittenKept'
<1>1. ed'[e] = x
  BY Changed
<1>. USE DEF OneChanges
<1>2. texts \in Nat
  BY Variables DEF VarFacts
<1>3. ASSUME NEW v \in 1..texts PROVE Somewhere(v)'
  <2>1. v \in Nat /\ v # 0
    BY <1>2
  <2>2. Somewhere(v)
    BY DEF EInv, WrittenKept, Somewhere
  <2>3. CASE v \in wasted
    BY <2>3 DEF Somewhere
  <2>4. ASSUME NEW d \in Editors, ed[d].open /\ ed[d].text[1] = v PROVE Somewhere(v)'
    <3>1. CASE d = e
      BY <2>1, <2>4, <3>1
    <3>2. CASE d # e
      BY <2>4, <3>2, Changed DEF Somewhere
    <3>. QED
      BY <3>1, <3>2
  <2>5. ASSUME NEW p \in EditorPaths, file[p].text[1] = v PROVE Somewhere(v)'
    BY <2>1, <2>5
  <2>. QED
    BY <2>2, <2>3, <2>4, <2>5 DEF Somewhere
<1>4. ASSUME NEW v, v = texts + 1, texts' = texts + 1, x.open, x.text[1] = texts' PROVE Somewhere(v)'
  <2>1. x.text[1] = v
    BY <1>4, Zenon
  <2>2. ed'[e].open /\ ed'[e].text[1] = v
    BY <1>4, <1>1, <2>1, SMTT(30)
  <2>. QED
    BY <2>2 DEF Somewhere
<1>5. ASSUME NEW v \in 1..texts' PROVE Somewhere(v)'
  <2>1. CASE v \in 1..texts
    BY <1>3, <2>1
  <2>2. CASE v \notin 1..texts
    <3>1. v = texts + 1 /\ texts' = texts + 1
      BY <1>2, <2>2
    <3>2. x.open /\ x.text[1] = texts'
      BY <1>2, <3>1
    <3>. QED
      BY <1>4, <3>1, <3>2
  <2>. QED
    BY <2>1, <2>2
<1>. QED
  BY <1>5 DEF WrittenKept, Somewhere

(* Editor e has the path p and could bring its file back.                  *)
Cares(e, p) ==
    /\ ed[e].open /\ ed[e].path = p
    /\ ed[e].dirty \/ e \in behind \/ InFlight(e)

LEMMA OneRemoved ==
    ASSUME EInv, NEW e \in Editors, NEW x, NEW ss, NEW re, OneChanges(e, x, ss, re),
           \A p \in EditorPaths :
              file'[p] = Gone =>
                 \/ file[p] = Gone /\ ~Cares(e, p)
                 \/ p \in abandoned'
                 \/ /\ x.open /\ x.path = p
                    /\ x.dirty \/ e \in behind' \/ ss # <<>> \/ re # Unforced
    PROVE  RemovedComesBack'
<1>. SUFFICES ASSUME NEW p \in EditorPaths, file'[p] = Gone
              PROVE  \/ p \in abandoned'
                     \/ \E d \in Editors : Cares(d, p)'
  BY DEF RemovedComesBack, Cares
<1>0. /\ \A d \in Editors \ {e} : d \in behind => d \in behind'
      /\ abandoned \subseteq abandoned'
  BY DEF OneChanges
<1>1. CASE /\ x.open /\ x.path = p
           /\ x.dirty \/ e \in behind' \/ ss # <<>> \/ re # Unforced
  <2>1. Cares(e, p)'
    BY <1>1, Changed DEF Cares, InFlight
  <2>. QED
    BY <2>1
<1>2. CASE file[p] = Gone /\ ~Cares(e, p)
  <2>1. \/ p \in abandoned
        \/ \E d \in Editors : Cares(d, p)
    BY <1>2 DEF EInv, RemovedComesBack, Cares
  <2>2. ASSUME NEW d \in Editors, Cares(d, p) PROVE Cares(d, p)'
    <3>1. d # e
      BY <1>2, <2>2
    <3>. QED
      BY <1>0, <2>2, <3>1, Changed DEF Cares, InFlight
  <2>. QED
    BY <1>0, <2>1, <2>2
<1>. QED
  BY <1>1, <1>2

(* A step of one editor that leaves the server as it is.                   *)
LEMMA OneTurn ==
    ASSUME EInv, NEW e \in Editors, NEW x, NEW ss, NEW re, OneChanges(e, x, ss, re),
           UNCHANGED file,
           Fits(x, ss, re, e \in editorSftp', wasted', file[x.path], e \notin behind'),
           \/ texts' = texts
           \/ texts' = texts + 1 /\ x.open /\ x.text[1] = texts',
           ed[e].open => \/ ed[e].text[1] \in wasted' \cup {0}
                         \/ x.open /\ x.text[1] = ed[e].text[1]
                         \/ \E p \in EditorPaths : file[p].text[1] = ed[e].text[1],
           \A p \in EditorPaths : file[p] = Gone /\ Cares(e, p) =>
                 \/ p \in abandoned'
                 \/ /\ x.open /\ x.path = p
                    /\ x.dirty \/ e \in behind' \/ ss # <<>> \/ re # Unforced
    PROVE  EInv'
<1>1. EditorTypes' /\ EditorsFit' /\ Closing'
  <2>1. file' \in [EditorPaths -> Content]
    BY Variables DEF VarFacts
  <2>. QED
    BY <2>1, OneEditor
<1>2. WrittenKept'
  <2>1. ASSUME NEW v \in Nat, v # 0, ed[e].open, ed[e].text[1] = v PROVE Somewhere(v)'
    <3>1. CASE v \in wasted'
      BY <3>1 DEF Somewhere
    <3>2. CASE x.open /\ x.text[1] = v
      BY <3>2, Changed DEF Somewhere
    <3>3. CASE \E p \in EditorPaths : file[p].text[1] = v
      BY <3>3 DEF Somewhere
    <3>. QED
      BY <2>1, <3>1, <3>2, <3>3
  <2>2. ASSUME NEW p \in EditorPaths, NEW v \in Nat, v # 0, file[p].text[1] = v PROVE Somewhere(v)'
    BY <2>2 DEF Somewhere
  <2>. QED
    BY <2>1, <2>2, OneWritten
<1>3. RemovedComesBack'
  <2>1. \A p \in EditorPaths :
              file'[p] = Gone =>
                 \/ file[p] = Gone /\ ~Cares(e, p)
                 \/ p \in abandoned'
                 \/ /\ x.open /\ x.path = p
                    /\ x.dirty \/ e \in behind' \/ ss # <<>> \/ re # Unforced
    OBVIOUS
  <2>. QED
    BY <2>1, OneRemoved
<1>4. FilesFit'
  <2>1. texts \in Nat /\ texts' \in Nat /\ texts <= texts'
    BY Variables DEF VarFacts, OneChanges
  <2>. QED
    BY <2>1, FileFacts DEF FilesFit
<1>. QED
  BY <1>1, <1>2, <1>3, <1>4 DEF EInv

(* What a step leaves as it is need not be said again.                     *)
LEMMA SameParts ==
    ASSUME EInv, NEW e \in Editors
    PROVE  /\ UNCHANGED ed => ed' = [ed EXCEPT ![e] = ed[e]]
           /\ UNCHANGED saves => saves' = [saves EXCEPT ![e] = saves[e]]
           /\ UNCHANGED reopening => reopening' = [reopening EXCEPT ![e] = reopening[e]]
           /\ texts \in Nat /\ texts <= texts
           /\ wasted \subseteq wasted /\ wasted \subseteq 0..texts
           /\ editorSftp \subseteq Editors /\ behind \subseteq Editors
           /\ abandoned \subseteq EditorPaths
           /\ closing \in [tab : Editors \cup {"none"}, saving : BOOLEAN]
           /\ closing.tab = e => ed[e].pc = "online"
           /\ NotClosing \in [tab : Editors \cup {"none"}, saving : BOOLEAN]
           /\ NotClosing.tab = "none" /\ e # "none"
BY Variables, EditorAssumption DEF VarFacts, EInv, Closing, NotClosing

-----------------------------------------------------------------------------
(* The actions of editors: opening                                         *)

LEMMA OpenEditorKeeps ==
    ASSUME EInv, NEW e \in Editors, NEW p \in EditorPaths, NEW large \in BOOLEAN,
           OpenEditor(e, p, large)
    PROVE  EInv'
<1>. DEFINE w == <<0, FALSE>>
            q == IF ~large THEN "connecting" ELSE IF Busy THEN "error" ELSE "asking"
            none == [pc |-> "none", open |-> FALSE, path |-> "none", text |-> w,
                     enc |-> "utf-8", bom |-> FALSE, dirty |-> FALSE, late |-> FALSE]
            x == [[[none EXCEPT !.path = p] EXCEPT !.open = TRUE] EXCEPT !.pc = q]
<1>1. /\ ed[e].pc = "none" /\ ed' = [ed EXCEPT ![e] = x]
      /\ UNCHANGED <<editorSftp, file, saves, reopening, closing, texts, behind, wasted, abandoned>>
  BY DEF OpenEditor, NoEditor
<1>2. w \in Text /\ w[1] = 0
  BY DEF Text
<1>3. q \in {"connecting", "error", "asking"}
  OBVIOUS
<1>. HIDE DEF w, q
<1>4. none \in Editor
  BY <1>2 DEF Editor, Encodings
<1>5. /\ x \in Editor /\ x.pc = q /\ x.open /\ x.path = p /\ x.text = w /\ x.enc = "utf-8"
      /\ ~x.bom /\ ~x.dirty
  BY <1>3, <1>4 DEF Editor
<1>. HIDE DEF x
<1>6. saves[e] = <<>> /\ reopening[e] = Unforced /\ ~ed[e].open
  BY <1>1, EditorFacts DEF Phases
<1>7. OneChanges(e, x, saves[e], reopening[e])
  <2>1. closing.tab # e
    BY <1>1, SameParts
  <2>2. x.text[1] <= texts
    BY <1>2, <1>5, SameParts
  <2>. QED
    BY <1>1, <1>5, <2>1, <2>2, SameParts, EditorFacts DEF OneChanges
<1>8. Fits(x, saves[e], reopening[e], e \in editorSftp', wasted', file[x.path], e \notin behind')
  <2>1. Phases(x, saves[e], reopening[e], e \in editorSftp')
    BY <1>2, <1>3, <1>5, <1>6 DEF Phases
  <2>2. Carried(x, saves[e], wasted') /\ Current(x, saves[e], file[x.path])
    BY <1>3, <1>5, <1>6 DEF Carried, Current
  <2>. QED
    BY <2>1, <2>2 DEF Fits
<1>. QED
  BY <1>1, <1>6, <1>7, <1>8, OneTurn DEF Cares

(* An editor that goes on or fails before it has a text.                   *)
LEMMA EarlyTurn ==
    ASSUME EInv, NEW e \in Editors, ed[e].pc \in {"asking", "connecting", "reading"},
           NEW q \in {"connecting", "reading", "error"}, ed' = [ed EXCEPT ![e].pc = q],
           UNCHANGED <<file, saves, reopening, closing, texts, behind, wasted, abandoned>>,
           editorSftp' \subseteq Editors,
           \A d \in Editors \ {e} : d \in editorSftp' <=> d \in editorSftp,
           q = "connecting" \/ e \in editorSftp' => ed[e].open \/ ed[e].late
    PROVE  EInv'
<1>. DEFINE x == [ed[e] EXCEPT !.pc = q]
<1>1. ed' = [ed EXCEPT ![e] = x]
  OBVIOUS
<1>2. /\ x \in Editor /\ x.pc = q /\ x.open = ed[e].open /\ x.path = ed[e].path
      /\ x.text = ed[e].text /\ x.enc = ed[e].enc /\ x.bom = ed[e].bom /\ x.dirty = ed[e].dirty
      /\ x.late = ed[e].late
  BY EditorFacts DEF Editor
<1>. HIDE DEF x
<1>3. saves[e] = <<>>
  BY EditorFacts DEF Phases
<1>4. OneChanges(e, x, saves[e], reopening[e])
  <2>1. closing.tab # e
    BY SameParts
  <2>2. x.text[1] <= texts
    BY <1>2, EditorFacts
  <2>. QED
    BY <1>1, <1>2, <2>1, <2>2, SameParts, EditorFacts DEF OneChanges
<1>5. Fits(x, saves[e], reopening[e], e \in editorSftp', wasted', file[x.path], e \notin behind')
  <2>1. Phases(x, saves[e], reopening[e], e \in editorSftp')
    BY <1>2, EditorFacts DEF Phases
  <2>2. Carried(x, saves[e], wasted') /\ Current(x, saves[e], file[x.path])
    BY <1>2, <1>3 DEF Carried, Current
  <2>. QED
    BY <2>1, <2>2 DEF Fits
<1>6. ASSUME NEW p \in EditorPaths, Cares(e, p)
      PROVE  /\ x.open /\ x.path = p
             /\ x.dirty \/ e \in behind' \/ saves[e] # <<>> \/ reopening[e] # Unforced
  BY <1>2, <1>6 DEF Cares, InFlight
<1>. QED
  BY <1>2, <1>4, <1>5, <1>6, OneTurn

LEMMA AnswerLargeKeeps ==
    ASSUME EInv, Asked, NEW e \in Editors, NEW ok \in BOOLEAN, AnswerLarge(e, ok)
    PROVE  EInv'
<1>. DEFINE q == IF ok THEN "connecting" ELSE "error"
<1>1. /\ ed[e].pc = "asking" /\ ed' = [ed EXCEPT ![e].pc = q]
      /\ UNCHANGED <<editorSftp, file, saves, reopening, closing, texts, behind, wasted, abandoned>>
  BY DEF AnswerLarge, Asked
<1>2. ed[e].open \/ ed[e].late
  BY <1>1, EditorFacts DEF Phases
<1>3. q \in {"connecting", "reading", "error"}
  OBVIOUS
<1>. QED
  BY <1>1, <1>2, <1>3, SameParts, EarlyTurn

LEMMA EditorConnectedKeeps ==
    ASSUME EInv, NEW e \in Editors, EditorConnected(e)
    PROVE  EInv'
<1>1. /\ ed[e].pc = "connecting" /\ ed' = [ed EXCEPT ![e].pc = "reading"]
      /\ editorSftp' = editorSftp \cup {e}
      /\ UNCHANGED <<file, saves, reopening, closing, texts, behind, wasted, abandoned>>
  BY DEF EditorConnected
<1>2. ed[e].open \/ ed[e].late
  BY <1>1, EditorFacts DEF Phases
<1>3. /\ editorSftp' \subseteq Editors
      /\ \A d \in Editors \ {e} : d \in editorSftp' <=> d \in editorSftp
  BY <1>1, SameParts
<1>. QED
  BY <1>1, <1>2, <1>3, EarlyTurn

LEMMA OpenFailsKeeps ==
    ASSUME EInv, NEW e \in Editors, OpenFails(e)
    PROVE  EInv'
<1>1. /\ ed[e].pc \in {"connecting", "reading"} /\ ed' = [ed EXCEPT ![e].pc = "error"]
      /\ UNCHANGED <<editorSftp, file, saves, reopening, closing, texts, behind, wasted, abandoned>>
  BY DEF OpenFails
<1>2. e \in editorSftp => ed[e].open \/ ed[e].late
  BY EditorFacts DEF Phases
<1>. QED
  BY <1>1, <1>2, SameParts, EarlyTurn

LEMMA FirstReadKeeps ==
    ASSUME EInv, NEW e \in Editors, FirstRead(e)
    PROVE  EInv'
<1>. DEFINE p == ed[e].path
            r == Loaded(ed[e], file[p], Unforced)
            y == [r EXCEPT !.pc = "online"]
            z == [ed[e] EXCEPT !.pc = "closed"]
            x == IF ed[e].open THEN y ELSE z
<1>1. /\ ed[e].pc = "reading" /\ file[p] # Gone /\ ed' = [ed EXCEPT ![e] = x]
      /\ behind' = behind \ {e}
      /\ UNCHANGED <<editorSftp, file, saves, reopening, closing, texts, wasted, abandoned>>
  BY DEF FirstRead
<1>2. /\ p \in EditorPaths /\ saves[e] = <<>> /\ reopening[e] = Unforced /\ ed[e].text[1] = 0
      /\ ed[e].enc = "utf-16" => ed[e].bom
      /\ ed[e].bom => ed[e].enc # "gbk"
      /\ e \in editorSftp => ed[e].open \/ ed[e].late
  BY <1>1, EditorFacts DEF Phases
<1>3. TookOver(ed[e], r, file[p])
  BY <1>1, <1>2, LoadedFits, FileFacts, EditorFacts
<1>. HIDE DEF r
<1>4. /\ y \in Editor /\ y.pc = "online" /\ y.open = ed[e].open /\ y.path = p /\ y.late = ed[e].late
      /\ y.text = r.text /\ y.enc = r.enc /\ y.bom = r.bom /\ y.dirty = r.dirty
  BY <1>3 DEF TookOver, Editor
<1>5. /\ z \in Editor /\ z.pc = "closed" /\ z.open = ed[e].open /\ z.path = p /\ z.late = ed[e].late
      /\ z.text = ed[e].text /\ z.enc = ed[e].enc /\ z.bom = ed[e].bom /\ z.dirty = ed[e].dirty
  BY EditorFacts DEF Editor
<1>. HIDE DEF y, z
<1>6. x \in Editor /\ x.open = ed[e].open /\ x.path = p /\ x.text[1] <= texts
  <2>1. r.text[1] <= texts /\ ed[e].text[1] <= texts
    BY <1>2, <1>3, FileFacts, EditorFacts DEF TookOver
  <2>. QED
    BY <1>4, <1>5, <2>1
<1>7. Fits(x, saves[e], reopening[e], e \in editorSftp', wasted', file[x.path], e \notin behind')
  <2>1. CASE ed[e].open
    <3>1. x = y
      BY <2>1
    <3>2. Phases(y, saves[e], reopening[e], e \in editorSftp')
      BY <1>2, <1>3, <1>4, <2>1 DEF Phases, TookOver
    <3>3. Matches(y, file[y.path])
      BY <1>3, <1>4 DEF TookOver, Matches
    <3>4. Carried(y, saves[e], wasted') /\ Current(y, saves[e], file[y.path])
      BY <1>2, <3>3 DEF Carried, Current
    <3>. QED
      BY <3>1, <3>2, <3>4 DEF Fits
  <2>2. CASE ~ed[e].open
    <3>1. x = z
      BY <2>2
    <3>2. Phases(z, saves[e], reopening[e], e \in editorSftp')
      BY <1>1, <1>2, <1>5, <2>2 DEF Phases
    <3>3. Carried(z, saves[e], wasted') /\ Current(z, saves[e], file[z.path])
      BY <1>2, <1>5 DEF Carried, Current
    <3>. QED
      BY <3>1, <3>2, <3>3 DEF Fits
  <2>. QED
    BY <2>1, <2>2
<1>8. closing.tab # e
  BY <1>1, SameParts
<1>. HIDE DEF x
<1>9. OneChanges(e, x, saves[e], reopening[e])
  BY <1>1, <1>6, <1>8, SameParts, EditorFacts DEF OneChanges
<1>10. \A f \in EditorPaths : ~(file[f] = Gone /\ Cares(e, f))
  BY <1>1 DEF Cares
<1>. QED
  BY <1>1, <1>2, <1>7, <1>9, <1>10, OneTurn

-----------------------------------------------------------------------------
(* The actions of editors: changing the document                           *)

LEMMA InEditorFacts ==
    ASSUME EInv, NEW e \in Editors, InEditor(e)
    PROVE  /\ ed[e].open /\ ed[e].pc = "online" /\ closing = NotClosing
           /\ ed[e].path \in EditorPaths
           /\ ed[e].enc = "utf-16" => ed[e].bom
           /\ ed[e].bom => ed[e].enc # "gbk"
BY EditorFacts DEF InEditor, Phases

(* A text that is shown and was not given up is on the server.             *)
LEMMA GivenUp ==
    ASSUME EInv, NEW e \in Editors, ed[e].open, ~ed[e].dirty, e \notin behind, ed[e].text[1] # 0
    PROVE  /\ saves[e] = <<>>
           /\ \E p \in EditorPaths : file[p].text[1] = ed[e].text[1]
<1>1. Phases(ed[e], saves[e], reopening[e], e \in editorSftp) /\ ed[e].pc = "online"
  <2>1. ed[e].pc \in {"online", "closed"} /\ ed[e].pc # "closed"
    BY EditorFacts DEF Phases
  <2>. QED
    BY <2>1, EditorFacts
<1>2. ed[e].path \in EditorPaths /\ Current(ed[e], saves[e], file[ed[e].path])
  BY <1>1, EditorFacts DEF Phases
<1>3. saves[e] = <<>> /\ Matches(ed[e], file[ed[e].path])
  BY <1>1, <1>2 DEF Current
<1>. QED
  BY <1>2, <1>3, MatchesHas, EditorFacts, FileFacts

LEMMA TypeKeeps ==
    ASSUME EInv, NEW e \in Editors, Type(e)
    PROVE  EInv'
<1>. DEFINE w == [ed[e].text EXCEPT ![1] = texts + 1]
            x == [[ed[e] EXCEPT !.text = w] EXCEPT !.dirty = TRUE]
<1>1. /\ InEditor(e) /\ texts' = texts + 1
      /\ ed' = [ed EXCEPT ![e].text[1] = texts + 1, ![e].dirty = TRUE]
      /\ GivesUp(e) /\ Blurs(e)
      /\ UNCHANGED <<editorSftp, file, saves, reopening, closing, abandoned>>
  BY DEF Type
<1>2. ed' = [ed EXCEPT ![e] = x]
  BY <1>1
<1>3. w \in Text /\ w[1] = texts + 1 /\ texts \in Nat
  <2>1. texts \in Nat /\ texts + 1 \in Nat /\ ed[e].text \in Text
    BY EditorFacts, SameParts
  <2>. QED
    BY <2>1, Texts
<1>. HIDE DEF w
<1>4. /\ x \in Editor /\ x.text = w /\ x.dirty /\ x.pc = ed[e].pc /\ x.open = ed[e].open
      /\ x.path = ed[e].path /\ x.enc = ed[e].enc /\ x.bom = ed[e].bom /\ x.late = ed[e].late
  BY <1>3, EditorFacts DEF Editor
<1>. HIDE DEF x
<1>5. wasted' = IF ed[e].dirty \/ e \in behind THEN wasted \cup {ed[e].text[1]} ELSE wasted
  BY <1>1 DEF GivesUp
<1>6. behind' = IF InFlight(e) THEN behind \cup {e} ELSE behind
  BY <1>1 DEF Blurs
<1>7. OneChanges(e, x, saves[e], reopening[e])
  <2>1. wasted \subseteq wasted' /\ wasted' \subseteq 0..texts'
    <3>1. texts \in Nat /\ wasted \subseteq 0..texts /\ ed[e].text[1] \in 0..texts
      BY SameParts, EditorFacts
    <3>2. 0..texts \subseteq 0..texts'
      BY <1>1, <3>1
    <3>. QED
      BY <1>5, <3>1, <3>2
  <2>2. behind' \subseteq Editors /\ \A d \in Editors \ {e} : d \in behind => d \in behind'
    BY <1>6, SameParts
  <2>3. closing.tab # e
    BY <1>1, InEditorFacts, SameParts
  <2>4. texts' \in Nat /\ texts <= texts' /\ x.text[1] <= texts'
    BY <1>1, <1>3, <1>4
  <2>. QED
    BY <1>1, <1>2, <1>4, <2>1, <2>2, <2>3, <2>4, SameParts, EditorFacts DEF OneChanges
<1>8. Fits(x, saves[e], reopening[e], e \in editorSftp', wasted', file[x.path], e \notin behind')
  <2>1. Phases(x, saves[e], reopening[e], e \in editorSftp')
    BY <1>1, <1>4, InEditorFacts, EditorFacts DEF Phases
  <2>2. Carried(x, saves[e], wasted')
    <3>1. CASE ed[e].dirty \/ e \in behind
      BY <1>5, <3>1, EditorFacts DEF Carried
    <3>2. CASE ~ed[e].dirty /\ e \notin behind
      <4>1. saves[e] = <<>>
        BY <1>1, <3>2, InEditorFacts, EditorFacts DEF Current
      <4>. QED
        BY <4>1 DEF Carried
    <3>. QED
      BY <3>1, <3>2
  <2>3. e \notin behind' => Current(x, saves[e], file[x.path])
    <3>1. e \notin behind' => saves[e] = <<>>
      BY <1>6 DEF InFlight
    <3>. QED
      BY <1>4, <3>1 DEF Current
  <2>. QED
    BY <2>1, <2>2, <2>3 DEF Fits
<1>9. \/ ed[e].text[1] \in wasted' \cup {0}
      \/ \E p \in EditorPaths : file[p].text[1] = ed[e].text[1]
  BY <1>1, <1>5, InEditorFacts, GivenUp
<1>10. x.open /\ x.text[1] = texts'
  BY <1>1, <1>3, <1>4, InEditorFacts
<1>11. \A p \in EditorPaths : Cares(e, p) => x.path = p
  BY <1>4 DEF Cares
<1>. QED
  BY <1>1, <1>4, <1>7, <1>8, <1>9, <1>10, <1>11, OneTurn

LEMMA SetEditorEncodingKeeps ==
    ASSUME EInv, NEW e \in Editors, NEW b \in BOOLEAN, SetEditorEncoding(e, b)
    PROVE  EInv'
<1>. DEFINE x == [[[ed[e] EXCEPT !.enc = "utf-8"] EXCEPT !.bom = b] EXCEPT !.dirty = TRUE]
<1>1. /\ InEditor(e)
      /\ ed' = [ed EXCEPT ![e].enc = "utf-8", ![e].bom = b, ![e].dirty = TRUE]
      /\ Blurs(e)
      /\ UNCHANGED <<editorSftp, file, saves, reopening, closing, texts, wasted, abandoned>>
  BY DEF SetEditorEncoding
<1>2. ed' = [ed EXCEPT ![e] = x]
  BY <1>1
<1>4. /\ x \in Editor /\ x.text = ed[e].text /\ x.dirty /\ x.pc = ed[e].pc /\ x.open = ed[e].open
      /\ x.path = ed[e].path /\ x.enc = "utf-8" /\ x.bom = b /\ x.late = ed[e].late
  BY EditorFacts DEF Editor, Encodings
<1>. HIDE DEF x
<1>6. behind' = IF InFlight(e) THEN behind \cup {e} ELSE behind
  BY <1>1 DEF Blurs
<1>7. OneChanges(e, x, saves[e], reopening[e])
  <2>2. behind' \subseteq Editors /\ \A d \in Editors \ {e} : d \in behind => d \in behind'
    BY <1>6, SameParts
  <2>3. closing.tab # e
    BY <1>1, InEditorFacts, SameParts
  <2>. QED
    BY <1>1, <1>2, <1>4, <2>2, <2>3, SameParts, EditorFacts DEF OneChanges
<1>8. Fits(x, saves[e], reopening[e], e \in editorSftp', wasted', file[x.path], e \notin behind')
  <2>1. Phases(x, saves[e], reopening[e], e \in editorSftp')
    BY <1>1, <1>4, InEditorFacts, EditorFacts DEF Phases
  <2>2. Carried(x, saves[e], wasted')
    BY <1>1, <1>4, EditorFacts DEF Carried
  <2>3. e \notin behind' => Current(x, saves[e], file[x.path])
    <3>1. e \notin behind' => saves[e] = <<>>
      BY <1>6 DEF InFlight
    <3>. QED
      BY <1>4, <3>1 DEF Current
  <2>. QED
    BY <2>1, <2>2, <2>3 DEF Fits
<1>9. x.open /\ x.text[1] = ed[e].text[1]
  BY <1>1, <1>4, InEditorFacts
<1>11. \A p \in EditorPaths : Cares(e, p) => x.path = p
  BY <1>4 DEF Cares
<1>. QED
  BY <1>1, <1>4, <1>7, <1>8, <1>9, <1>11, OneTurn

-----------------------------------------------------------------------------
(* The actions of editors: saving                                          *)

LEMMA StartsKeeps ==
    ASSUME EInv, NEW e \in Editors, NEW from \in {"panel", "dialog"}, Starts(e, from),
           CanEncode(ed[e]), ed[e].pc = "online",
           UNCHANGED <<editorSftp, file, reopening, texts, wasted, abandoned>>,
           closing' \in [tab : Editors \cup {"none"}, saving : BOOLEAN], closing'.tab = closing.tab
    PROVE  EInv'
<1>. DEFINE c == [step |-> "write", data |-> Encode(ed[e]), from |-> from]
            ss == Append(saves[e], c)
<1>1. /\ Len(saves[e]) < MaxSaves /\ saves' = [saves EXCEPT ![e] = ss] /\ UNCHANGED ed
      /\ behind' = IF InFlight(e) \/ ~ed[e].dirty THEN behind \cup {e} ELSE behind
  BY DEF Starts
<1>2. /\ ed[e].path \in EditorPaths /\ ed[e].open
      /\ ed[e].enc = "utf-16" => ed[e].bom
  BY EditorFacts DEF Phases
<1>3. /\ Encode(ed[e]) \in Content /\ Encode(ed[e]).text = ed[e].text
      /\ Readable(Encode(ed[e]))
  BY <1>2, EncodedFits, EditorFacts
<1>4. c \in SaveCall /\ c.data = Encode(ed[e])
  BY <1>3 DEF SaveCall
<1>. HIDE DEF c
<1>5. /\ ss \in Seq(SaveCall) /\ Len(ss) = Len(saves[e]) + 1 /\ Len(saves[e]) \in Nat
      /\ \A i \in 1..Len(saves[e]) : ss[i] = saves[e][i]
      /\ ss[Len(saves[e]) + 1] = c
      /\ saves[e] = <<>> <=> Len(saves[e]) = 0
  BY <1>4, Extended, EditorFacts
<1>6. DOMAIN ss = 1..Len(ss) /\ DOMAIN saves[e] = 1..Len(saves[e])
  BY <1>5, EditorFacts
<1>. HIDE DEF ss
<1>7. ss # <<>>
  BY <1>5
<1>8. OneChanges(e, ed[e], ss, reopening[e])
  <2>1. Len(ss) <= MaxSaves
    BY <1>1, <1>5, EditorAssumption
  <2>2. behind' \subseteq Editors /\ \A d \in Editors \ {e} : d \in behind => d \in behind'
    BY <1>1, SameParts
  <2>. QED
    BY <1>1, <1>5, <2>1, <2>2, SameParts, EditorFacts DEF OneChanges
<1>9. Fits(ed[e], ss, reopening[e], e \in editorSftp', wasted', file[ed[e].path], e \notin behind')
  <2>1. Phases(ed[e], ss, reopening[e], e \in editorSftp')
    BY EditorFacts DEF Phases
  <2>2. Carried(ed[e], ss, wasted')
    <3>1. ASSUME NEW i \in DOMAIN ss
          PROVE  Readable(ss[i].data) /\ ss[i].data.text[1] \in wasted \cup {0, ed[e].text[1]}
      <4>1. CASE i \in 1..Len(saves[e])
        BY <1>5, <1>6, <4>1, EditorFacts DEF Carried
      <4>2. CASE i \notin 1..Len(saves[e])
        <5>1. i = Len(saves[e]) + 1
          BY <1>5, <1>6, <4>2
        <5>. QED
          BY <1>3, <1>4, <1>5, <5>1
      <4>. QED
        BY <4>1, <4>2
    <3>. QED
      BY <3>1 DEF Carried
  <2>3. ASSUME e \notin behind' PROVE Current(ed[e], ss, file[ed[e].path])
    <3>1. saves[e] = <<>> /\ ed[e].dirty
      BY <1>1, <2>3 DEF InFlight
    <3>2. Len(ss) = 1 /\ ss[1] = c
      BY <1>5, <3>1
    <3>. QED
      BY <1>4, <3>1, <3>2 DEF Current
  <2>. QED
    BY <2>1, <2>2, <2>3 DEF Fits
<1>10. \A p \in EditorPaths : Cares(e, p) => ed[e].path = p
  BY DEF Cares
<1>. QED
  BY <1>2, <1>7, <1>8, <1>9, <1>10, OneTurn

LEMMA SaveKeeps ==
    ASSUME EInv, NEW e \in Editors, Save(e)
    PROVE  EInv'
<1>1. /\ InEditor(e)
      /\ UNCHANGED <<editorSftp, file, reopening, closing, texts, wasted, abandoned>>
      /\ \/ CanEncode(ed[e]) /\ Starts(e, "panel")
         \/ UNCHANGED <<saves, behind, ed>>
  BY DEF Save
<1>2. CASE CanEncode(ed[e]) /\ Starts(e, "panel")
  BY <1>1, <1>2, InEditorFacts, SameParts, StartsKeeps
<1>3. CASE UNCHANGED <<saves, behind, ed>>
  BY <1>1, <1>3, EditorKept DEF editorVars
<1>. QED
  BY <1>1, <1>2, <1>3

LEMMA SaveAndCloseKeeps ==
    ASSUME EInv, NEW e \in Editors, SaveAndClose(e)
    PROVE  EInv'
<1>1. /\ closing.tab = e /\ CanEncode(ed[e]) /\ Starts(e, "dialog")
      /\ closing' = [closing EXCEPT !.saving = TRUE]
      /\ UNCHANGED <<editorSftp, file, reopening, texts, wasted, abandoned>>
  BY DEF SaveAndClose
<1>2. ed[e].pc = "online"
  BY <1>1, SameParts
<1>3. closing' \in [tab : Editors \cup {"none"}, saving : BOOLEAN] /\ closing'.tab = closing.tab
  BY <1>1, SameParts
<1>. QED
  BY <1>1, <1>2, <1>3, StartsKeeps

(* A step of one editor after which the server has f at its path.          *)
LEMMA OneFile ==
    ASSUME EInv, NEW e \in Editors, NEW x, NEW ss, NEW re, OneChanges(e, x, ss, re),
           texts' = texts, ed[e].path \in EditorPaths, x.path = ed[e].path,
           NEW f \in Content, file' = [file EXCEPT ![ed[e].path] = f],
           f.text[1] <= texts, f # Gone => f.enc \in Encodings, f.bom => f.enc # "gbk",
           f.text[1] # 0 => Readable(f),
           \/ file[ed[e].path] = Gone
           \/ \A d \in Editors \ {e} : ed[d].open /\ ed[d].path = ed[e].path => d \in behind',
           Fits(x, ss, re, e \in editorSftp', wasted', f, e \notin behind'),
           ed[e].open => \/ ed[e].text[1] \in wasted' \cup {0}
                         \/ x.open /\ x.text[1] = ed[e].text[1]
                         \/ f.text[1] = ed[e].text[1],
           \/ file[ed[e].path].text[1] \in wasted' \cup {0}
           \/ x.open /\ x.text[1] = file[ed[e].path].text[1],
           f = Gone => x.open /\ (x.dirty \/ e \in behind' \/ ss # <<>>)
    PROVE  EInv'
<1>. DEFINE p == ed[e].path
<1>1. /\ file' \in [EditorPaths -> Content] /\ file'[p] = f
      /\ \A q \in EditorPaths : q # p => file'[q] = file[q]
  BY Variables DEF VarFacts
<1>2. EditorTypes' /\ EditorsFit' /\ Closing'
  <2>1. ASSUME NEW d \in Editors \ {e}, d \notin behind', ed[d].pc = "online"
        PROVE  file'[ed[d].path] = file[ed[d].path] \/ file[ed[d].path] = Gone
    <3>1. ed[d].open /\ ed[d].path \in EditorPaths
      BY <2>1, EditorFacts DEF Phases
    <3>. QED
      BY <1>1, <2>1, <3>1
  <2>2. Fits(x, ss, re, e \in editorSftp', wasted', file'[x.path], e \notin behind')
    BY <1>1
  <2>. QED
    BY <1>1, <2>1, <2>2, OneEditor
<1>3. WrittenKept'
  <2>1. ASSUME NEW v \in Nat, v # 0, ed[e].open, ed[e].text[1] = v PROVE Somewhere(v)'
    <3>1. CASE v \in wasted'
      BY <3>1 DEF Somewhere
    <3>2. CASE x.open /\ x.text[1] = v
      BY <3>2, Changed DEF Somewhere
    <3>3. CASE f.text[1] = v
      BY <1>1, <3>3 DEF Somewhere
    <3>. QED
      BY <2>1, <3>1, <3>2, <3>3
  <2>2. ASSUME NEW q \in EditorPaths, NEW v \in Nat, v # 0, file[q].text[1] = v PROVE Somewhere(v)'
    <3>1. CASE q # p
      BY <1>1, <2>2, <3>1 DEF Somewhere
    <3>2. CASE q = p /\ v \in wasted'
      BY <3>2 DEF Somewhere
    <3>3. CASE q = p /\ x.open /\ x.text[1] = v
      BY <3>3, Changed DEF Somewhere
    <3>. QED
      BY <2>2, <3>1, <3>2, <3>3
  <2>. QED
    BY <2>1, <2>2, OneWritten
<1>4. RemovedComesBack'
  <2>1. ASSUME NEW q \in EditorPaths, file'[q] = Gone
        PROVE  \/ file[q] = Gone /\ ~Cares(e, q)
               \/ q \in abandoned'
               \/ /\ x.open /\ x.path = q
                  /\ x.dirty \/ e \in behind' \/ ss # <<>> \/ re # Unforced
    BY <1>1, <2>1 DEF Cares
  <2>. QED
    BY <2>1, OneRemoved
<1>5. FilesFit'
  <2>1. ASSUME NEW q \in EditorPaths
        PROVE  /\ file'[q].text[1] <= texts'
               /\ file'[q] # Gone => file'[q].enc \in Encodings
               /\ file'[q].bom => file'[q].enc # "gbk"
               /\ file'[q].text[1] # 0 => Readable(file'[q])
    BY <1>1, FileFacts
  <2>. QED
    BY <2>1 DEF FilesFit
<1>. QED
  BY <1>2, <1>3, <1>4, <1>5 DEF EInv

(* A save under way is that of an editor that is online.                   *)
LEMMA SavingFacts ==
    ASSUME EInv, NEW e \in Editors, NEW i \in DOMAIN saves[e]
    PROVE  /\ ed[e].pc = "online" /\ ed[e].open /\ ed[e].path \in EditorPaths
           /\ saves[e] # <<>> /\ i \in 1..Len(saves[e]) /\ saves[e][i] \in SaveCall
           /\ saves[e][i].data \in Content /\ Readable(saves[e][i].data)
           /\ saves[e][i].data.text[1] \in wasted \cup {0, ed[e].text[1]}
           /\ saves[e][i].data.text[1] <= texts
           /\ e \notin behind => /\ ed[e].dirty /\ Len(saves[e]) = 1 /\ i = 1
                                 /\ saves[e][i].data = Encode(ed[e])
<1>1. i \in 1..Len(saves[e]) /\ saves[e] # <<>>
  BY EditorFacts, EmptySeq
<1>2. ed[e].pc = "online" /\ ed[e].open /\ ed[e].path \in EditorPaths
  BY <1>1, EditorFacts DEF Phases
<1>3. saves[e][i] \in SaveCall
  BY <1>1, EditorFacts
<1>4. /\ Readable(saves[e][i].data)
      /\ saves[e][i].data.text[1] \in wasted \cup {0, ed[e].text[1]}
  BY EditorFacts DEF Carried
<1>5. saves[e][i].data \in Content
  BY <1>3 DEF SaveCall
<1>6. saves[e][i].data.text[1] <= texts
  BY <1>4, EditorFacts, SameParts
<1>7. ASSUME e \notin behind
      PROVE  ed[e].dirty /\ Len(saves[e]) = 1 /\ i = 1 /\ saves[e][i].data = Encode(ed[e])
  <2>1. ed[e].dirty /\ Len(saves[e]) = 1 /\ saves[e][1].data = Encode(ed[e])
    BY <1>1, <1>2, <1>7, EditorFacts DEF Current
  <2>2. i = 1
    BY <1>1, <2>1, Sole
  <2>. QED
    BY <2>1, <2>2
<1>. QED
  BY <1>1, <1>2, <1>3, <1>4, <1>5, <1>6, <1>7

LEMMA SaveRemovesKeeps ==
    ASSUME EInv, NEW e \in Editors, NEW i \in 1..MaxSaves, SaveRemoves(e, i)
    PROVE  EInv'
<1>. DEFINE p == ed[e].path
            c == [saves[e][i] EXCEPT !.step = "rename"]
            ss == [saves[e] EXCEPT ![i] = c]
<1>1. /\ i \in DOMAIN saves[e] /\ saves' = [saves EXCEPT ![e] = ss]
      /\ file' = [file EXCEPT ![p] = Gone]
      /\ wasted' = IF file[p].text = saves[e][i].data.text THEN wasted
                   ELSE wasted \cup {file[p].text[1]}
      /\ behind' = behind \cup Sharing(e)
      /\ UNCHANGED <<ed, editorSftp, reopening, closing, texts, abandoned>>
  BY DEF SaveRemoves, Disturbs
<1>2. c \in SaveCall /\ c.data = saves[e][i].data
  BY <1>1, SavingFacts DEF SaveCall
<1>. HIDE DEF c
<1>3. /\ ss \in Seq(SaveCall) /\ Len(ss) = Len(saves[e]) /\ DOMAIN ss = DOMAIN saves[e]
      /\ \A j \in DOMAIN ss : ss[j] = IF j = i THEN c ELSE saves[e][j]
  BY <1>1, <1>2, EditorFacts
<1>. HIDE DEF ss
<1>4. \A j \in DOMAIN ss : ss[j].data = saves[e][j].data
  BY <1>2, <1>3
<1>5. ss # <<>>
  BY <1>1, <1>3, SavingFacts, EmptySeq
<1>6. wasted \subseteq wasted' /\ wasted' \subseteq 0..texts
  <2>1. file[p].text[1] \in 0..texts /\ wasted \subseteq 0..texts
    <3>1. p \in EditorPaths
      BY <1>1, SavingFacts
    <3>2. file[p].text[1] \in Nat /\ file[p].text[1] <= texts
      BY <3>1, FileFacts
    <3>. QED
      BY <3>2, SameParts
  <2>. QED
    BY <1>1, <2>1
<1>7. OneChanges(e, ed[e], ss, reopening[e])
  <2>1. behind' \subseteq Editors /\ \A d \in Editors \ {e} : d \in behind => d \in behind'
    BY <1>1, SameParts DEF Sharing
  <2>. QED
    BY <1>1, <1>3, <1>6, <2>1, SameParts, EditorFacts DEF OneChanges
<1>8. Fits(ed[e], ss, reopening[e], e \in editorSftp', wasted', Gone, e \notin behind')
  <2>1. Phases(ed[e], ss, reopening[e], e \in editorSftp')
    BY <1>1, SavingFacts, EditorFacts DEF Phases
  <2>2. Carried(ed[e], ss, wasted')
    BY <1>3, <1>4, <1>6, SavingFacts DEF Carried
  <2>3. ASSUME e \notin behind' PROVE Current(ed[e], ss, Gone)
    <3>1. ed[e].dirty /\ Len(saves[e]) = 1 /\ i = 1 /\ saves[e][i].data = Encode(ed[e])
      BY <1>1, <2>3, SavingFacts
    <3>2. ss[1].data = Encode(ed[e])
      BY <1>1, <1>3, <1>4, <3>1
    <3>. QED
      BY <1>3, <3>1, <3>2 DEF Current
  <2>. QED
    BY <2>1, <2>2, <2>3 DEF Fits
<1>9. \/ file[p].text[1] \in wasted' \cup {0}
      \/ ed[e].open /\ ed[e].text[1] = file[p].text[1]
  BY <1>1, <1>6, SavingFacts
<1>10. \A d \in Editors \ {e} : ed[d].open /\ ed[d].path = p => d \in behind'
  BY <1>1 DEF Sharing
<1>11. p \in EditorPaths /\ ed[e].open
  BY <1>1, SavingFacts
<1>12. Gone.text[1] <= texts
  BY GoneFacts, SameParts
<1>. QED
  BY <1>1, <1>5, <1>7, <1>8, <1>9, <1>10, <1>11, <1>12, GoneFacts, OneFile

(* The calls that are left when one has ended.                             *)
LEMMA LeftOver ==
    ASSUME EInv, NEW e \in Editors, NEW i \in DOMAIN saves[e], NEW ss, ss = RemoveAt(saves[e], i),
           NEW x \in Editor, x.text = ed[e].text
    PROVE  /\ ss \in Seq(SaveCall) /\ Len(ss) <= MaxSaves
           /\ Carried(x, ss, wasted)
           /\ e \notin behind => ss = <<>>
<1>. DEFINE rest == SubSeq(saves[e], 1, i - 1) \o SubSeq(saves[e], i + 1, Len(saves[e]))
<1>1. ss = rest
  BY DEF RemoveAt
<1>2. i \in 1..Len(saves[e])
  BY SavingFacts
<1>3. /\ rest \in Seq(SaveCall) /\ Len(rest) = Len(saves[e]) - 1
      /\ \A j \in 1..Len(rest) : rest[j] = saves[e][IF j < i THEN j ELSE j + 1]
  BY <1>2, Removed, EditorFacts
<1>. HIDE DEF rest
<1>4. DOMAIN rest = 1..Len(rest) /\ DOMAIN saves[e] = 1..Len(saves[e])
  BY <1>3, EditorFacts
<1>5. ASSUME NEW j \in DOMAIN rest
      PROVE  Readable(rest[j].data) /\ rest[j].data.text[1] \in wasted \cup {0, x.text[1]}
  <2>. DEFINE k == IF j < i THEN j ELSE j + 1
  <2>1. k \in DOMAIN saves[e]
    BY <1>2, <1>3, <1>4, <1>5, EditorFacts
  <2>2. rest[j] = saves[e][k]
    BY <1>3, <1>4
  <2>. HIDE DEF k
  <2>. QED
    BY <2>1, <2>2, SavingFacts
<1>6. Len(rest) <= MaxSaves
  BY <1>3, EditorFacts, EditorAssumption
<1>7. e \notin behind => rest = <<>>
  BY <1>3, SavingFacts, EmptySeq
<1>. QED
  BY <1>1, <1>3, <1>5, <1>6, <1>7 DEF Carried

LEMMA SaveFailsKeeps ==
    ASSUME EInv, NEW e \in Editors, NEW i \in 1..MaxSaves, SaveFails(e, i)
    PROVE  EInv'
<1>. DEFINE ss == RemoveAt(saves[e], i)
<1>1. /\ i \in DOMAIN saves[e] /\ saves' = [saves EXCEPT ![e] = ss]
      /\ closing' = closing \/ closing' = [closing EXCEPT !.saving = FALSE]
      /\ UNCHANGED <<ed, editorSftp, file, reopening, texts, behind, wasted, abandoned>>
  BY DEF SaveFails
<1>2. /\ ss \in Seq(SaveCall) /\ Len(ss) <= MaxSaves
      /\ Carried(ed[e], ss, wasted)
      /\ e \notin behind => ss = <<>>
  BY <1>1, LeftOver, EditorFacts
<1>. HIDE DEF ss
<1>3. /\ ed[e].pc = "online" /\ ed[e].open
      /\ e \notin behind => ed[e].dirty
  BY <1>1, SavingFacts
<1>4. OneChanges(e, ed[e], ss, reopening[e])
  <2>1. closing' \in [tab : Editors \cup {"none"}, saving : BOOLEAN] /\ closing'.tab = closing.tab
    BY <1>1, SameParts
  <2>. QED
    BY <1>1, <1>2, <2>1, SameParts, EditorFacts DEF OneChanges
<1>5. Fits(ed[e], ss, reopening[e], e \in editorSftp', wasted', file[ed[e].path], e \notin behind')
  <2>1. Phases(ed[e], ss, reopening[e], e \in editorSftp')
    BY <1>1, <1>3, EditorFacts DEF Phases
  <2>2. e \notin behind' => Current(ed[e], ss, file[ed[e].path])
    BY <1>1, <1>2, <1>3 DEF Current
  <2>. QED
    BY <1>1, <1>2, <2>1, <2>2 DEF Fits
<1>6. \A p \in EditorPaths : Cares(e, p) => ed[e].path = p
  BY DEF Cares
<1>. QED
  BY <1>1, <1>3, <1>4, <1>5, <1>6, OneTurn

(* An editor that is closed becomes x, which has nothing to lose.          *)
ClosedAs(e, x, agreed) ==
    /\ OneChanges(e, x, <<>>, Unforced) /\ ~x.open /\ x.path = ed[e].path
    /\ ed[e].path \in EditorPaths
    /\ \A f, lost, sure : Fits(x, <<>>, Unforced, e \in editorSftp', lost, f, sure)
    /\ wasted' = IF agreed \/ e \in behind THEN wasted \cup {ed[e].text[1]} ELSE wasted
    /\ abandoned' = IF ed[e].dirty \/ e \in behind \/ InFlight(e)
                    THEN abandoned \cup {ed[e].path} ELSE abandoned

LEMMA CloseNowFacts ==
    ASSUME EInv, NEW e \in Editors, NEW agreed, CloseNow(e, agreed), ed[e].open, UNCHANGED texts
    PROVE  \E x : ClosedAs(e, x, agreed)
<1>. DEFINE early == ed[e].pc \in {"asking", "connecting"}
            q == IF early THEN ed[e].pc ELSE "closed"
            x == [[[[ed[e] EXCEPT !.open = FALSE] EXCEPT !.dirty = FALSE] EXCEPT !.late = early]
                     EXCEPT !.pc = q]
            n == <<>>
<1>1. /\ ed' = [ed EXCEPT ![e] = x] /\ editorSftp' = editorSftp \ {e}
      /\ saves' = [saves EXCEPT ![e] = n] /\ reopening' = [reopening EXCEPT ![e] = Unforced]
      /\ closing' = NotClosing
      /\ abandoned' = IF ed[e].dirty \/ e \in behind \/ InFlight(e)
                      THEN abandoned \cup {ed[e].path} ELSE abandoned
      /\ wasted' = IF agreed \/ e \in behind THEN wasted \cup {ed[e].text[1]} ELSE wasted
      /\ behind' = behind \ {e}
  BY DEF CloseNow
<1>2. /\ ed[e].pc # "none" /\ ed[e].path \in EditorPaths
      /\ ed[e].pc \notin {"online", "closed"} => ed[e].text[1] = 0
      /\ ed[e].enc = "utf-16" => ed[e].bom
      /\ ed[e].bom => ed[e].enc # "gbk"
  BY EditorFacts DEF Phases
<1>3. n \in Seq(SaveCall) /\ Len(n) = 0
  OBVIOUS
<1>4. early \in BOOLEAN /\ q \in {"asking", "connecting", "closed"} /\ (q # "closed" <=> early)
      /\ (early => q = ed[e].pc)
  OBVIOUS
<1>. HIDE DEF early, q
<1>5. /\ x \in Editor /\ ~x.open /\ ~x.dirty /\ x.late = early /\ x.pc = q
      /\ x.path = ed[e].path /\ x.text = ed[e].text /\ x.enc = ed[e].enc /\ x.bom = ed[e].bom
  BY <1>4, EditorFacts DEF Editor
<1>. HIDE DEF x
<1>6. OneChanges(e, x, n, Unforced)
  <2>1. wasted \subseteq wasted' /\ wasted' \subseteq 0..texts'
    <3>1. ed[e].text[1] \in 0..texts
      BY EditorFacts, SameParts
    <3>. QED
      BY <1>1, <3>1, SameParts
  <2>2. editorSftp' \subseteq Editors /\ behind' \subseteq Editors
        /\ \A d \in Editors \ {e} : /\ d \in editorSftp' <=> d \in editorSftp
                                    /\ d \in behind => d \in behind'
    BY <1>1, SameParts
  <2>3. abandoned \subseteq abandoned' /\ abandoned' \subseteq EditorPaths
    BY <1>1, <1>2, SameParts
  <2>4. Len(n) <= MaxSaves
    BY <1>3, EditorAssumption
  <2>. HIDE DEF n
  <2>5. x.text[1] <= texts' /\ texts' \in Nat /\ texts <= texts'
    BY <1>5, EditorFacts, SameParts
  <2>6. /\ closing' \in [tab : Editors \cup {"none"}, saving : BOOLEAN]
        /\ closing'.tab \in {closing.tab, e, "none"}
        /\ closing'.tab = e => x.pc = "online"
    BY <1>1, SameParts
  <2>. QED
    BY <1>1, <1>3, <1>5, <2>1, <2>2, <2>3, <2>4, <2>5, <2>6 DEF OneChanges
<1>7. ASSUME NEW f, NEW lost, NEW sure PROVE Fits(x, n, Unforced, e \in editorSftp', lost, f, sure)
  <2>1. e \notin editorSftp'
    BY <1>1
  <2>2. Phases(x, n, Unforced, e \in editorSftp')
    BY <1>2, <1>4, <1>5, <2>1 DEF Phases
  <2>3. Carried(x, n, lost) /\ Current(x, n, f)
    BY <1>4, <1>5 DEF Carried, Current
  <2>. QED
    BY <2>2, <2>3 DEF Fits
<1>. QED
  BY <1>1, <1>2, <1>5, <1>6, <1>7 DEF ClosedAs

(* Closed by the user: what goes was saved, given up, or never there.      *)
LEMMA ClosesKeeps ==
    ASSUME EInv, NEW e \in Editors, NEW agreed, CloseNow(e, agreed), ed[e].open,
           UNCHANGED <<texts, file>>, agreed \/ ~ed[e].dirty
    PROVE  EInv'
<1>1. PICK x : ClosedAs(e, x, agreed)
  BY CloseNowFacts
<1>. DEFINE n == <<>>
<1>2. /\ OneChanges(e, x, n, Unforced) /\ ~x.open
      /\ \A f, lost, sure : Fits(x, n, Unforced, e \in editorSftp', lost, f, sure)
  BY <1>1 DEF ClosedAs
<1>. HIDE DEF n
<1>3. Fits(x, n, Unforced, e \in editorSftp', wasted', file[x.path], e \notin behind')
  BY <1>2
<1>4. \/ ed[e].text[1] \in wasted' \cup {0}
      \/ \E p \in EditorPaths : file[p].text[1] = ed[e].text[1]
  <2>1. agreed \/ e \in behind => ed[e].text[1] \in wasted'
    BY <1>1 DEF ClosedAs
  <2>. QED
    BY <2>1, GivenUp
<1>5. \A p \in EditorPaths : Cares(e, p) => p \in abandoned'
  BY <1>1 DEF ClosedAs, Cares
<1>. QED
  BY <1>2, <1>3, <1>4, <1>5, OneTurn

LEMMA SaveEndsKeeps ==
    ASSUME EInv, NEW e \in Editors, NEW i \in 1..MaxSaves, SaveEnds(e, i)
    PROVE  EInv'
<1>. DEFINE p == ed[e].path
            f == saves[e][i].data
<1>1. /\ i \in DOMAIN saves[e] /\ file[p] = Gone /\ file' = [file EXCEPT ![p] = f]
      /\ UNCHANGED texts
  BY DEF SaveEnds
<1>2. /\ ed[e].pc = "online" /\ ed[e].open /\ p \in EditorPaths
      /\ f \in Content /\ Readable(f) /\ f.text[1] <= texts
      /\ f.text[1] \in wasted \cup {0, ed[e].text[1]}
      /\ e \notin behind => f = Encode(ed[e])
  BY <1>1, SavingFacts
<1>3. f # Gone /\ f.enc \in Encodings /\ f.enc # "gbk"
  BY <1>2, ReadableReopens
<1>4. file[p].text[1] = 0
  BY <1>1, GoneFacts
<1>5. CASE saves[e][i].from = "dialog"
  <2>1. CloseNow(e, FALSE)
    BY <1>5 DEF SaveEnds
  <2>. DEFINE n == <<>>
  <2>. HIDE DEF f
  <2>2. PICK x : ClosedAs(e, x, FALSE)
    BY <1>1, <1>2, <2>1, CloseNowFacts
  <2>3. /\ OneChanges(e, x, n, Unforced) /\ x.path = p
        /\ \A g, lost, sure : Fits(x, n, Unforced, e \in editorSftp', lost, g, sure)
    BY <2>2 DEF ClosedAs
  <2>. HIDE DEF n
  <2>4. Fits(x, n, Unforced, e \in editorSftp', wasted', f, e \notin behind')
    BY <2>3
  <2>5. ed[e].text[1] \in wasted' \/ f.text[1] = ed[e].text[1]
    <3>1. CASE e \in behind
      BY <2>2, <3>1 DEF ClosedAs
    <3>2. CASE e \notin behind
      BY <1>2, <3>2, EncodedFits, EditorFacts
    <3>. QED
      BY <3>1, <3>2
  <2>. QED
    BY <1>1, <1>2, <1>3, <1>4, <2>3, <2>4, <2>5, OneFile
<1>6. CASE saves[e][i].from # "dialog"
  <2>. DEFINE ss == RemoveAt(saves[e], i)
              x == [ed[e] EXCEPT !.dirty = FALSE]
  <2>1. /\ saves' = [saves EXCEPT ![e] = ss] /\ ed' = [ed EXCEPT ![e] = x]
        /\ behind' = behind \cup Sharing(e)
        /\ UNCHANGED <<editorSftp, reopening, closing, wasted, abandoned>>
    BY <1>6 DEF SaveEnds, Disturbs
  <2>2. /\ x \in Editor /\ x.pc = ed[e].pc /\ x.open = ed[e].open /\ x.path = p
        /\ x.text = ed[e].text /\ x.enc = ed[e].enc /\ x.bom = ed[e].bom /\ x.late = ed[e].late
        /\ ~x.dirty
    BY EditorFacts DEF Editor
  <2>. HIDE DEF x
  <2>3. /\ ss \in Seq(SaveCall) /\ Len(ss) <= MaxSaves
        /\ Carried(x, ss, wasted)
        /\ e \notin behind => ss = <<>>
    BY <1>1, <2>2, LeftOver
  <2>. HIDE DEF ss, f
  <2>4. OneChanges(e, x, ss, reopening[e])
    <3>1. behind' \subseteq Editors /\ \A d \in Editors \ {e} : d \in behind => d \in behind'
      BY <2>1, SameParts DEF Sharing
    <3>2. x.text[1] <= texts
      BY <2>2, EditorFacts
    <3>. QED
      BY <1>1, <1>2, <2>1, <2>2, <2>3, <3>1, <3>2, SameParts, EditorFacts DEF OneChanges
  <2>5. Fits(x, ss, reopening[e], e \in editorSftp', wasted', f, e \notin behind')
    <3>1. Phases(x, ss, reopening[e], e \in editorSftp')
      BY <1>2, <2>1, <2>2, EditorFacts DEF Phases
    <3>2. ASSUME e \notin behind' PROVE Current(x, ss, f)
      <4>1. e \notin behind
        BY <2>1, <3>2
      <4>2. Matches(ed[e], f)
        BY <1>2, <4>1, EncodedFits, EditorFacts
      <4>. QED
        BY <2>2, <2>3, <4>1, <4>2 DEF Current, Matches
    <3>. QED
      BY <2>1, <2>3, <3>1, <3>2 DEF Fits
  <2>. QED
    BY <1>1, <1>2, <1>3, <1>4, <2>2, <2>4, <2>5, OneFile
<1>. QED
  BY <1>5, <1>6

-----------------------------------------------------------------------------
(* The actions of editors: reopening and closing                           *)

(* Reopening begins, ends or fails: only what is awaited changes.          *)
LEMMA ReopeningTurn ==
    ASSUME EInv, NEW e \in Editors, ed[e].pc \in {"online", "closed"},
           NEW re \in {Unforced, "utf-8", "gbk"}, reopening' = [reopening EXCEPT ![e] = re],
           UNCHANGED <<ed, editorSftp, file, saves, closing, texts, wasted, abandoned>>,
           behind \subseteq behind', behind' \subseteq behind \cup {e},
           \A p \in EditorPaths : file[p] = Gone /\ Cares(e, p) =>
              ed[e].dirty \/ e \in behind' \/ saves[e] # <<>> \/ re # Unforced
    PROVE  EInv'
<1>1. OneChanges(e, ed[e], saves[e], re)
  <2>1. behind' \subseteq Editors /\ \A d \in Editors \ {e} : d \in behind => d \in behind'
    BY SameParts
  <2>. QED
    BY <2>1, SameParts, EditorFacts DEF OneChanges
<1>2. Fits(ed[e], saves[e], re, e \in editorSftp', wasted', file[ed[e].path], e \notin behind')
  <2>1. Phases(ed[e], saves[e], re, e \in editorSftp')
    BY EditorFacts DEF Phases
  <2>2. Carried(ed[e], saves[e], wasted')
    BY EditorFacts
  <2>3. e \notin behind' => Current(ed[e], saves[e], file[ed[e].path])
    BY EditorFacts
  <2>. QED
    BY <2>1, <2>2, <2>3 DEF Fits
<1>3. \A p \in EditorPaths : Cares(e, p) => ed[e].open /\ ed[e].path = p
  BY DEF Cares
<1>. QED
  BY <1>1, <1>2, <1>3, OneTurn

LEMMA ReopenKeeps ==
    ASSUME EInv, NEW e \in Editors, NEW forced \in {"utf-8", "gbk"}, Reopen(e, forced)
    PROVE  EInv'
<1>1. /\ InEditor(e)
      /\ UNCHANGED <<ed, editorSftp, file, saves, closing, texts, wasted, abandoned>>
      /\ \/ UNCHANGED <<reopening, behind>>
         \/ reopening' = [reopening EXCEPT ![e] = forced] /\ Blurs(e)
  BY DEF Reopen
<1>2. CASE UNCHANGED <<reopening, behind>>
  BY <1>1, <1>2, EditorKept DEF editorVars
<1>3. CASE reopening' = [reopening EXCEPT ![e] = forced] /\ Blurs(e)
  <2>1. behind \subseteq behind' /\ behind' \subseteq behind \cup {e} /\ forced # Unforced
    BY <1>3 DEF Blurs, Unforced
  <2>2. ed[e].pc \in {"online", "closed"}
    BY <1>1, InEditorFacts
  <2>3. forced \in {Unforced, "utf-8", "gbk"}
    OBVIOUS
  <2>4. UNCHANGED <<ed, editorSftp, file, saves, closing, texts, wasted, abandoned>>
    BY <1>1
  <2>. QED
    BY <1>3, <2>1, <2>2, <2>3, <2>4, ReopeningTurn
<1>. QED
  BY <1>1, <1>2, <1>3

LEMMA AnswerReopenKeeps ==
    ASSUME EInv, Asked, NEW e \in Editors, NEW ok \in BOOLEAN, AnswerReopen(e, ok)
    PROVE  EInv'
<1>. DEFINE forced == CHOOSE f \in dialog.paths : TRUE
<1>1. /\ dialog.by = "reopen" /\ dialog.tab = e
      /\ UNCHANGED <<ed, editorSftp, file, saves, closing, texts, wasted, abandoned>>
      /\ \/ UNCHANGED <<reopening, behind>>
         \/ reopening' = [reopening EXCEPT ![e] = forced] /\ Blurs(e)
  BY DEF AnswerReopen
<1>2. ed[e].pc \in {"online", "closed"} /\ dialog.paths \in {{"utf-8"}, {"gbk"}}
  BY <1>1 DEF Asked
<1>3. forced \in {"utf-8", "gbk"}
  <2>1. forced \in dialog.paths
    <3>1. \E f \in dialog.paths : TRUE
      BY <1>2
    <3>. QED
      BY <3>1
  <2>. QED
    BY <1>2, <2>1
<1>. HIDE DEF forced
<1>4. CASE UNCHANGED <<reopening, behind>>
  BY <1>1, <1>4, EditorKept DEF editorVars
<1>5. CASE reopening' = [reopening EXCEPT ![e] = forced] /\ Blurs(e)
  <2>1. behind \subseteq behind' /\ behind' \subseteq behind \cup {e} /\ forced # Unforced
    BY <1>3, <1>5 DEF Blurs, Unforced
  <2>. QED
    BY <1>1, <1>2, <1>3, <1>5, <2>1, ReopeningTurn
<1>. QED
  BY <1>1, <1>4, <1>5

LEMMA RereadFailsKeeps ==
    ASSUME EInv, NEW e \in Editors, RereadFails(e)
    PROVE  EInv'
<1>1. /\ reopening[e] # Unforced /\ reopening' = [reopening EXCEPT ![e] = Unforced]
      /\ UNCHANGED <<ed, editorSftp, file, saves, closing, texts, behind, wasted, abandoned>>
  BY DEF RereadFails
<1>2. ed[e].pc \in {"online", "closed"}
  BY <1>1, EditorFacts DEF Phases
<1>3. ASSUME NEW p \in EditorPaths, file[p] = Gone, Cares(e, p)
      PROVE  ed[e].dirty \/ e \in behind' \/ saves[e] # <<>>
  <2>1. ed[e].open /\ ed[e].path = p
    BY <1>3 DEF Cares
  <2>2. ed[e].pc = "online"
    BY <1>2, <2>1, EditorFacts DEF Phases
  <2>. QED
    BY <1>1, <1>3, <2>1, <2>2, EditorFacts DEF Current, Matches
<1>4. behind \subseteq behind' /\ behind' \subseteq behind \cup {e} /\ Unforced \in {Unforced, "utf-8", "gbk"}
  BY <1>1
<1>. QED
  BY <1>1, <1>2, <1>3, <1>4, ReopeningTurn

LEMMA RereadKeeps ==
    ASSUME EInv, NEW e \in Editors, Reread(e)
    PROVE  EInv'
<1>. DEFINE p == ed[e].path
            x == Loaded(ed[e], file[p], reopening[e])
<1>1. /\ reopening[e] # Unforced /\ file[p] # Gone
      /\ ed' = [ed EXCEPT ![e] = x] /\ reopening' = [reopening EXCEPT ![e] = Unforced]
      /\ wasted' = IF ed[e].dirty \/ e \in behind THEN wasted \cup {ed[e].text[1]} ELSE wasted
      /\ behind' = IF saves[e] = <<>> THEN behind \ {e} ELSE behind \cup {e}
      /\ UNCHANGED <<editorSftp, file, saves, closing, texts, abandoned>>
  BY DEF Reread, GivesUp
<1>2. ed[e].pc \in {"online", "closed"} /\ p \in EditorPaths
  BY <1>1, EditorFacts DEF Phases
<1>3. TookOver(ed[e], x, file[p])
  BY <1>1, <1>2, LoadedFits, FileFacts, EditorFacts
<1>. HIDE DEF x
<1>4. /\ x \in Editor /\ x.text[1] = file[p].text[1] /\ ~x.dirty /\ Matches(x, file[p])
      /\ x.enc = "utf-16" => x.bom
      /\ x.bom => x.enc # "gbk"
      /\ x.pc = ed[e].pc /\ x.open = ed[e].open /\ x.path = p /\ x.late = ed[e].late
  BY <1>3 DEF TookOver
<1>5. wasted \subseteq wasted' /\ wasted' \subseteq 0..texts
  <2>1. ed[e].text[1] \in 0..texts
    BY EditorFacts, SameParts
  <2>. QED
    BY <1>1, <2>1, SameParts
<1>6. OneChanges(e, x, saves[e], Unforced)
  <2>1. behind' \subseteq Editors /\ \A d \in Editors \ {e} : d \in behind => d \in behind'
    BY <1>1, SameParts
  <2>2. x.text[1] <= texts
    BY <1>2, <1>4, FileFacts
  <2>3. closing.tab = e => x.pc = "online"
    BY <1>4, SameParts
  <2>. QED
    BY <1>1, <1>4, <1>5, <2>1, <2>2, <2>3, SameParts, EditorFacts DEF OneChanges
<1>7. Fits(x, saves[e], Unforced, e \in editorSftp', wasted', file[x.path], e \notin behind')
  <2>1. Phases(x, saves[e], Unforced, e \in editorSftp')
    BY <1>1, <1>2, <1>4, EditorFacts DEF Phases
  <2>2. Carried(x, saves[e], wasted')
    <3>1. CASE saves[e] = <<>>
      BY <3>1 DEF Carried
    <3>2. CASE ed[e].dirty \/ e \in behind
      BY <1>1, <3>2, EditorFacts DEF Carried
    <3>3. CASE saves[e] # <<>> /\ ~ed[e].dirty /\ e \notin behind
      <4>1. ed[e].pc = "online"
        BY <3>3, EditorFacts DEF Phases
      <4>. QED
        BY <3>3, <4>1, EditorFacts DEF Current
    <3>. QED
      BY <3>1, <3>2, <3>3
  <2>3. e \notin behind' => Current(x, saves[e], file[x.path])
    BY <1>1, <1>4 DEF Current
  <2>. QED
    BY <2>1, <2>2, <2>3 DEF Fits
<1>8. ed[e].open => \/ ed[e].text[1] \in wasted' \cup {0}
                    \/ \E q \in EditorPaths : file[q].text[1] = ed[e].text[1]
  BY <1>1, GivenUp
<1>9. \A q \in EditorPaths : ~(file[q] = Gone /\ Cares(e, q))
  BY <1>1 DEF Cares
<1>. QED
  BY <1>1, <1>6, <1>7, <1>8, <1>9, OneTurn

LEMMA CloseEditorKeeps ==
    ASSUME EInv, NEW e \in Editors, CloseEditor(e)
    PROVE  EInv'
<1>1. ed[e].open /\ UNCHANGED <<texts, file>>
  BY DEF CloseEditor
<1>2. CASE ~ed[e].dirty
  <2>1. CloseNow(e, FALSE)
    BY <1>2 DEF CloseEditor, AsksFirst
  <2>. QED
    BY <1>1, <1>2, <2>1, ClosesKeeps
<1>3. CASE ed[e].dirty
  <2>1. /\ closing' = [tab |-> e, saving |-> FALSE]
        /\ UNCHANGED <<ed, editorSftp, file, saves, reopening, texts, behind, wasted, abandoned>>
    BY <1>3 DEF CloseEditor, AsksFirst
  <2>2. ed[e].pc = "online"
    BY <1>1, <1>3, EditorFacts DEF Phases
  <2>3. /\ closing' \in [tab : Editors \cup {"none"}, saving : BOOLEAN]
        /\ closing'.tab = e
    BY <2>1
  <2>4. EditorTypes' /\ Closing'
    BY <2>1, <2>2, <2>3 DEF EInv, EditorTypes, Closing
  <2>5. EditorsFit' /\ FilesFit' /\ WrittenKept' /\ RemovedComesBack'
    BY <2>1 DEF EInv, EditorsFit, Phases, Carried, Current, FilesFit, WrittenKept,
                RemovedComesBack, InFlight
  <2>. QED
    BY <2>4, <2>5 DEF EInv
<1>. QED
  BY <1>2, <1>3

LEMMA CancelCloseKeeps == EInv /\ CancelClose => EInv'
<1>. SUFFICES ASSUME EInv, CancelClose PROVE EInv'
  OBVIOUS
<1>1. /\ closing' = NotClosing
      /\ UNCHANGED <<ed, editorSftp, file, saves, reopening, texts, behind, wasted, abandoned>>
  BY DEF CancelClose
<1>2. NotClosing \in [tab : Editors \cup {"none"}, saving : BOOLEAN] /\ NotClosing.tab = "none"
  BY DEF NotClosing
<1>3. EditorTypes' /\ Closing'
  BY <1>1, <1>2 DEF EInv, EditorTypes, Closing
<1>4. EditorsFit' /\ FilesFit' /\ WrittenKept' /\ RemovedComesBack'
  BY <1>1 DEF EInv, EditorsFit, Phases, Carried, Current, FilesFit, WrittenKept,
              RemovedComesBack, InFlight
<1>. QED
  BY <1>3, <1>4 DEF EInv

LEMMA DiscardKeeps ==
    ASSUME EInv, NEW e \in Editors, Discard(e)
    PROVE  EInv'
<1>1. closing.tab = e /\ CloseNow(e, TRUE) /\ UNCHANGED <<texts, file>>
  BY DEF Discard
<1>2. ed[e].open
  BY <1>1, SameParts, EditorFacts DEF Phases
<1>. QED
  BY <1>1, <1>2, ClosesKeeps

-----------------------------------------------------------------------------
(* The steps of editors                                                    *)

LEMMA EditorStep ==
    ASSUME EInv, Asked, EditorNext
    PROVE  EInv'
<1>1. CASE CancelClose
  BY <1>1, CancelCloseKeeps
<1>2. ASSUME NEW e \in Editors, NEW p \in EditorPaths, NEW b \in BOOLEAN, OpenEditor(e, p, b)
      PROVE  EInv'
  BY <1>2, OpenEditorKeeps
<1>3. ASSUME NEW e \in Editors,
             \/ EditorConnected(e) \/ OpenFails(e) \/ FirstRead(e)
             \/ Type(e) \/ Save(e) \/ Reread(e) \/ RereadFails(e)
      PROVE  EInv'
  BY <1>3, EditorConnectedKeeps, OpenFailsKeeps, FirstReadKeeps, TypeKeeps, SaveKeeps,
     RereadKeeps, RereadFailsKeeps
<1>4. ASSUME NEW e \in Editors, NEW b \in BOOLEAN,
             AnswerLarge(e, b) \/ SetEditorEncoding(e, b) \/ AnswerReopen(e, b)
      PROVE  EInv'
  BY <1>4, AnswerLargeKeeps, SetEditorEncodingKeeps, AnswerReopenKeeps
<1>5. ASSUME NEW e \in Editors, NEW i \in 1..MaxSaves,
             SaveRemoves(e, i) \/ SaveEnds(e, i) \/ SaveFails(e, i)
      PROVE  EInv'
  BY <1>5, SaveRemovesKeeps, SaveEndsKeeps, SaveFailsKeeps
<1>6. ASSUME NEW e \in Editors, NEW f \in {"utf-8", "gbk"}, Reopen(e, f) PROVE EInv'
  BY <1>6, ReopenKeeps
<1>7. ASSUME NEW e \in Editors, CloseEditor(e) \/ Discard(e) \/ SaveAndClose(e) PROVE EInv'
  BY <1>7, CloseEditorKeeps, DiscardKeeps, SaveAndCloseKeeps
<1>. QED
  BY <1>1, <1>2, <1>3, <1>4, <1>5, <1>6, <1>7 DEF EditorNext

-----------------------------------------------------------------------------
(* The question shown                                                      *)

(* Every editor keeps to the phase its question found it in.               *)
Patient ==
    \A d \in Editors : /\ ed[d].pc = "asking" => ed'[d].pc = "asking"
                       /\ ed[d].pc \in {"online", "closed"} => ed'[d].pc \in {"online", "closed"}

LEMMA StaysAsked == Asked /\ Patient /\ dialog' = dialog => Asked'
<1>. SUFFICES ASSUME Asked, Patient, dialog' = dialog PROVE Asked'
  OBVIOUS
<1>1. CASE dialog.by = "large"
  BY <1>1 DEF Asked, Patient
<1>2. CASE dialog.by = "reopen"
  BY <1>2 DEF Asked, Patient
<1>3. CASE dialog.by \notin {"large", "reopen"}
  BY <1>3 DEF Asked
<1>. QED
  BY <1>1, <1>2, <1>3

LEMMA NobodyAsked == dialog' = NoQuestion => Asked'
BY DEF Asked, NoQuestion, Questions

LEMMA AlertAsked == dialog' = Alert => Asked'
BY DEF Asked, Alert, Questions

LEMMA NoEditorMoves == UNCHANGED ed => Patient
BY DEF Patient

LEMMA OneMoves ==
    ASSUME EInv, NEW e \in Editors, NEW x, ed' = [ed EXCEPT ![e] = x],
           ed[e].pc = "asking" => x.pc = "asking",
           ed[e].pc \in {"online", "closed"} => x.pc \in {"online", "closed"}
    PROVE  Patient
<1>1. ed'[e] = x /\ \A d \in Editors \ {e} : ed'[d] = ed[d]
  BY Variables DEF VarFacts
<1>2. ASSUME NEW d \in Editors
      PROVE  /\ ed[d].pc = "asking" => ed'[d].pc = "asking"
             /\ ed[d].pc \in {"online", "closed"} => ed'[d].pc \in {"online", "closed"}
  <2>1. CASE d = e
    BY <1>1, <2>1
  <2>2. CASE d # e
    BY <1>1, <2>2
  <2>. QED
    BY <2>1, <2>2
<1>. QED
  BY <1>2 DEF Patient

LEMMA CloseNowMoves ==
    ASSUME EInv, NEW e \in Editors, NEW agreed, CloseNow(e, agreed)
    PROVE  Patient
<1>. DEFINE early == ed[e].pc \in {"asking", "connecting"}
            q == IF early THEN ed[e].pc ELSE "closed"
            x == [[[[ed[e] EXCEPT !.open = FALSE] EXCEPT !.dirty = FALSE] EXCEPT !.late = early]
                     EXCEPT !.pc = q]
<1>1. ed' = [ed EXCEPT ![e] = x]
  BY DEF CloseNow
<1>2. x.pc = q
  BY EditorFacts DEF Editor
<1>. HIDE DEF x
<1>. QED
  BY <1>1, <1>2, OneMoves

LEMMA OpenEditorAsked ==
    ASSUME EInv, Asked, NEW e \in Editors, NEW p \in EditorPaths, NEW large \in BOOLEAN,
           OpenEditor(e, p, large)
    PROVE  Asked'
<1>. DEFINE q == IF ~large THEN "connecting" ELSE IF Busy THEN "error" ELSE "asking"
            x == [[[NoEditor EXCEPT !.path = p] EXCEPT !.open = TRUE] EXCEPT !.pc = q]
            none == {}
            k == [by |-> "large", tab |-> e, paths |-> none]
<1>1. /\ ed[e].pc = "none" /\ ed' = [ed EXCEPT ![e] = x]
      /\ dialog' = IF large /\ ~Busy THEN k ELSE dialog
  BY DEF OpenEditor, Asks, dialogVars
<1>2. x.pc = q
  BY DEF NoEditor
<1>. HIDE DEF x, none
<1>3. CASE large /\ ~Busy
  <2>1. dialog' = k /\ ed'[e].pc = "asking"
    BY <1>1, <1>2, <1>3, Variables DEF VarFacts
  <2>. QED
    BY <2>1 DEF Asked, Questions
<1>4. CASE ~(large /\ ~Busy)
  BY <1>1, <1>4, OneMoves, StaysAsked
<1>. QED
  BY <1>3, <1>4

LEMMA EditorDialogStep ==
    ASSUME EInv, Asked, EditorNext
    PROVE  Asked'
<1>1. CASE CancelClose
  BY <1>1, NoEditorMoves, StaysAsked DEF CancelClose, dialogVars
<1>2. ASSUME NEW e \in Editors, NEW p \in EditorPaths, NEW b \in BOOLEAN, OpenEditor(e, p, b)
      PROVE  Asked'
  BY <1>2, OpenEditorAsked
<1>3. ASSUME NEW e \in Editors, EditorConnected(e) \/ OpenFails(e) PROVE Asked'
  <2>1. /\ ed[e].pc \in {"connecting", "reading"} /\ dialog' = dialog
        /\ \/ ed' = [ed EXCEPT ![e].pc = "reading"]
           \/ ed' = [ed EXCEPT ![e].pc = "error"]
    BY <1>3 DEF EditorConnected, OpenFails, dialogVars
  <2>2. Patient
    BY <2>1, OneMoves
  <2>. QED
    BY <2>1, <2>2, StaysAsked
<1>4. ASSUME NEW e \in Editors, FirstRead(e) PROVE Asked'
  <2>. DEFINE x == IF ed[e].open THEN [Loaded(ed[e], file[ed[e].path], Unforced) EXCEPT !.pc = "online"]
                   ELSE [ed[e] EXCEPT !.pc = "closed"]
  <2>1. ed[e].pc = "reading" /\ dialog' = dialog /\ ed' = [ed EXCEPT ![e] = x]
    BY <1>4 DEF FirstRead, dialogVars
  <2>. HIDE DEF x
  <2>. QED
    BY <2>1, OneMoves, StaysAsked
<1>5. ASSUME NEW e \in Editors, NEW b \in BOOLEAN, Type(e) \/ SetEditorEncoding(e, b) PROVE Asked'
  <2>1. dialog' = dialog
    BY <1>5 DEF Type, SetEditorEncoding, dialogVars
  <2>2. Patient
    <3>1. CASE Type(e)
      <4>. DEFINE w == [ed[e].text EXCEPT ![1] = texts + 1]
                  x == [[ed[e] EXCEPT !.text = w] EXCEPT !.dirty = TRUE]
      <4>1. ed' = [ed EXCEPT ![e] = x]
        BY <3>1 DEF Type
      <4>. HIDE DEF w
      <4>2. x.pc = ed[e].pc
        BY EditorFacts DEF Editor
      <4>. HIDE DEF x
      <4>. QED
        BY <4>1, <4>2, OneMoves
    <3>2. CASE SetEditorEncoding(e, b)
      <4>. DEFINE x == [[[ed[e] EXCEPT !.enc = "utf-8"] EXCEPT !.bom = b] EXCEPT !.dirty = TRUE]
      <4>1. ed' = [ed EXCEPT ![e] = x]
        BY <3>2 DEF SetEditorEncoding
      <4>2. x.pc = ed[e].pc
        BY EditorFacts DEF Editor
      <4>. HIDE DEF x
      <4>. QED
        BY <4>1, <4>2, OneMoves
    <3>. QED
      BY <1>5, <3>1, <3>2
  <2>. QED
    BY <2>1, <2>2, StaysAsked
<1>6. ASSUME NEW e \in Editors, Save(e) \/ RereadFails(e) PROVE Asked'
  <2>1. UNCHANGED ed /\ (dialog' = dialog \/ dialog' = Alert)
    BY <1>6 DEF Save, Starts, RereadFails, Asks, dialogVars
  <2>. QED
    BY <2>1, NoEditorMoves, StaysAsked, AlertAsked
<1>7. ASSUME NEW e \in Editors, Reread(e) PROVE Asked'
  <2>. DEFINE x == Loaded(ed[e], file[ed[e].path], reopening[e])
  <2>1. dialog' = dialog /\ ed' = [ed EXCEPT ![e] = x]
    BY <1>7 DEF Reread, dialogVars
  <2>2. reopening[e] # Unforced /\ file[ed[e].path] # Gone
    BY <1>7 DEF Reread
  <2>3. ed[e].path \in EditorPaths
    BY <2>2, EditorFacts DEF Phases
  <2>4. x.pc = ed[e].pc
    BY <2>2, <2>3, LoadedFits, FileFacts, EditorFacts DEF TookOver
  <2>. HIDE DEF x
  <2>. QED
    BY <2>1, <2>4, OneMoves, StaysAsked
<1>8. ASSUME NEW e \in Editors, NEW b \in BOOLEAN, AnswerLarge(e, b) \/ AnswerReopen(e, b) PROVE Asked'
  BY <1>8, NobodyAsked DEF AnswerLarge, AnswerReopen, Settles
<1>9. ASSUME NEW e \in Editors, NEW i \in 1..MaxSaves, SaveRemoves(e, i) \/ SaveFails(e, i) PROVE Asked'
  <2>1. UNCHANGED ed /\ (dialog' = dialog \/ dialog' = Alert)
    BY <1>9 DEF SaveRemoves, SaveFails, Asks, dialogVars
  <2>. QED
    BY <2>1, NoEditorMoves, StaysAsked, AlertAsked
<1>10. ASSUME NEW e \in Editors, NEW i \in 1..MaxSaves, SaveEnds(e, i) PROVE Asked'
  <2>1. dialog' = dialog
    BY <1>10 DEF SaveEnds, dialogVars
  <2>2. CASE CloseNow(e, FALSE)
    BY <2>1, <2>2, CloseNowMoves, StaysAsked
  <2>3. CASE ~CloseNow(e, FALSE)
    <3>. DEFINE x == [ed[e] EXCEPT !.dirty = FALSE]
    <3>1. ed' = [ed EXCEPT ![e] = x]
      BY <1>10, <2>3 DEF SaveEnds
    <3>2. x.pc = ed[e].pc
      BY EditorFacts DEF Editor
    <3>. HIDE DEF x
    <3>. QED
      BY <2>1, <3>1, <3>2, OneMoves, StaysAsked
  <2>. QED
    BY <2>2, <2>3
<1>11. ASSUME NEW e \in Editors, NEW f \in {"utf-8", "gbk"}, Reopen(e, f) PROVE Asked'
  <2>. DEFINE fs1 == {f}
              k == [by |-> "reopen", tab |-> e, paths |-> fs1]
  <2>1. UNCHANGED ed /\ (dialog' = dialog \/ dialog' = k)
    BY <1>11 DEF Reopen, Asks, dialogVars
  <2>2. ed[e].pc = "online"
    BY <1>11, InEditorFacts DEF Reopen
  <2>3. fs1 \in {{"utf-8"}, {"gbk"}}
    OBVIOUS
  <2>. HIDE DEF fs1
  <2>4. CASE dialog' = k
    BY <2>1, <2>2, <2>3, <2>4 DEF Asked, Questions
  <2>. QED
    BY <2>1, <2>4, NoEditorMoves, StaysAsked
<1>12. ASSUME NEW e \in Editors, CloseEditor(e) \/ Discard(e) \/ SaveAndClose(e) PROVE Asked'
  <2>1. dialog' = dialog /\ (UNCHANGED ed \/ \E agreed \in BOOLEAN : CloseNow(e, agreed))
    BY <1>12 DEF CloseEditor, Discard, SaveAndClose, Starts, dialogVars
  <2>. QED
    BY <2>1, NoEditorMoves, CloseNowMoves, StaysAsked
<1>. QED
  BY <1>1, <1>2, <1>3, <1>4, <1>5, <1>6, <1>7, <1>8, <1>9, <1>10, <1>11, <1>12 DEF EditorNext

-----------------------------------------------------------------------------
(* The invariant holds                                                     *)

LEMMA TabsInit == FileInit => TabInv
<1>. SUFFICES ASSUME FileInit PROVE TabInv
  OBVIOUS
<1>. DEFINE n == <<>>
<1>1. /\ ft = [t \in FTabs |-> NoTab] /\ listing = [t \in FTabs |-> n]
      /\ sftp = {} /\ crossed = {} /\ late = {}
  BY DEF FileInit
<1>2. n \in Seq(Dirs) /\ Len(n) = 0
  OBVIOUS
<1>3. NoTab \in Tab /\ NoTab.pc = "none" /\ ~NoTab.open
  BY NewTab DEF NoTab
<1>4. NoTab.at \in 1..Len(NoTab.history) /\ NoTab.history[NoTab.at] = NoTab.cwd
  <2>1. <<Root>> \in Seq(Dirs) /\ Len(<<Root>>) = 1 /\ <<Root>>[1] = Root
    BY NewTab, FileAssumption
  <2>. QED
    BY <2>1, NewTab
<1>5. Shows(NoTab, n, FALSE) /\ Owned(NoTab, n, FALSE, FALSE)
  BY <1>2, <1>3, <1>4 DEF Shows, Owned
<1>6. MaxCalls \in Nat
  BY FileAssumption
<1>. HIDE DEF n
<1>7. TabTypes
  BY <1>1, <1>2, <1>3, <1>6 DEF TabTypes
<1>8. ASSUME NEW t \in FTabs
      PROVE  /\ Shows(ft[t], listing[t], t \in crossed)
             /\ Owned(ft[t], listing[t], t \in sftp, t \in late)
  <2>1. ft[t] = NoTab /\ listing[t] = n /\ t \notin crossed /\ t \notin sftp /\ t \notin late
    BY <1>1
  <2>2. (t \in crossed) = FALSE /\ (t \in sftp) = FALSE /\ (t \in late) = FALSE
    BY <2>1
  <2>. QED
    BY <1>5, <2>1, <2>2
<1>. QED
  BY <1>7, <1>8 DEF TabInv, TabsFit

LEMMA ServerInit == FileInit => ServerInv
<1>. SUFFICES ASSUME FileInit PROVE ServerInv
  OBVIOUS
<1>. DEFINE none == {}
<1>1. /\ clip = [mode |-> "none", tab |-> "none", paths |-> none]
      /\ paste = [t \in FTabs |-> [kind |-> "none", mode |-> "copy", from |-> "none", paths |-> none,
                                   todo |-> none, into |-> "cwd", failed |-> FALSE]]
      /\ erase = [t \in FTabs |-> none] /\ fs = [p \in FirstFiles |-> p]
      /\ asked = {} /\ accounted = {}
  BY DEF FileInit, NoClip, NoTask
<1>2. none \in SUBSET Paths /\ none \subseteq asked
  OBVIOUS
<1>. HIDE DEF none
<1>3. clip \in Clip /\ paste \in [FTabs -> Task] /\ erase \in [FTabs -> SUBSET Paths]
  BY <1>1, <1>2 DEF Clip, Task
<1>4. \A t \in FTabs : paste[t].todo \subseteq paste[t].paths /\ paste[t].kind # "drop"
  BY <1>1
<1>5. /\ DOMAIN fs \subseteq Paths /\ \A p \in DOMAIN fs : fs[p] \in FirstFiles
      /\ asked \subseteq Paths /\ accounted \subseteq FirstFiles
  BY <1>1, FileAssumption DEF Paths
<1>6. Consented
  BY <1>1, <1>2 DEF Consented
<1>7. NothingLost
  BY <1>1 DEF NothingLost, Range
<1>. QED
  BY <1>3, <1>4, <1>5, <1>6, <1>7 DEF ServerInv, ServerTypes

LEMMA EditorsInit == EditorInit => EInv
<1>. SUFFICES ASSUME EditorInit PROVE EInv
  OBVIOUS
<1>. DEFINE n == <<>>
            w == <<0, FALSE>>
            x == [pc |-> "none", open |-> FALSE, path |-> "none", text |-> w,
                  enc |-> "utf-8", bom |-> FALSE, dirty |-> FALSE, late |-> FALSE]
<1>1. /\ ed = [e \in Editors |-> x] /\ editorSftp = {}
      /\ file \in [EditorPaths -> {f \in FirstContents : f.bom => f.enc # "gbk"}]
      /\ saves = [e \in Editors |-> n] /\ reopening = [e \in Editors |-> Unforced]
      /\ closing = NotClosing /\ texts = 0 /\ behind = {} /\ wasted = {} /\ abandoned = {}
  BY DEF EditorInit, NoEditor
<1>2. n \in Seq(SaveCall) /\ Len(n) = 0 /\ w \in Text /\ w[1] = 0
  <2>1. n \in Seq(SaveCall) /\ Len(n) = 0
    OBVIOUS
  <2>2. w \in Text /\ w[1] = 0
    BY DEF Text
  <2>. QED
    BY <2>1, <2>2
<1>3. FirstContents = {[text |-> w, enc |-> e, bom |-> b] : e \in Encodings, b \in BOOLEAN}
  BY DEF FirstContents
<1>. HIDE DEF w
<1>4. x \in Editor /\ x.text[1] = 0
  BY <1>2 DEF Editor, Encodings
<1>5. Phases(x, n, Unforced, FALSE) /\ \A lost, f : Carried(x, n, lost) /\ Current(x, n, f)
  BY <1>2 DEF Phases, Carried, Current
<1>. HIDE DEF n, x
<1>6. ASSUME NEW p \in EditorPaths
      PROVE  /\ file[p] \in Content /\ file[p].text[1] = 0 /\ file[p].enc \in Encodings
             /\ file[p].bom => file[p].enc # "gbk"
  <2>1. file[p] \in FirstContents /\ (file[p].bom => file[p].enc # "gbk")
    BY <1>1
  <2>. QED
    BY <1>2, <1>3, <2>1 DEF Content
<1>7. EditorTypes
  <2>1. file \in [EditorPaths -> Content]
    BY <1>1, <1>6
  <2>2. closing \in [tab : Editors \cup {"none"}, saving : BOOLEAN]
    BY <1>1 DEF NotClosing
  <2>3. ASSUME NEW e \in Editors PROVE Len(saves[e]) <= MaxSaves
    BY <1>1, <1>2, EditorAssumption
  <2>4. /\ ed \in [Editors -> Editor] /\ saves \in [Editors -> Seq(SaveCall)]
        /\ reopening \in [Editors -> {Unforced, "utf-8", "gbk"}]
    BY <1>1, <1>2, <1>4
  <2>5. /\ texts \in Nat /\ behind \subseteq Editors /\ editorSftp \subseteq Editors
        /\ wasted \subseteq 0..texts /\ abandoned \subseteq EditorPaths
    BY <1>1
  <2>. QED
    BY <2>1, <2>2, <2>3, <2>4, <2>5 DEF EditorTypes
<1>8. EditorsFit
  <2>. SUFFICES ASSUME NEW e \in Editors
                PROVE  /\ ed[e].text[1] <= texts
                       /\ Phases(ed[e], saves[e], reopening[e], e \in editorSftp)
                       /\ Carried(ed[e], saves[e], wasted)
                       /\ e \notin behind => Current(ed[e], saves[e], file[ed[e].path])
    BY DEF EditorsFit
  <2>1. ed[e] = x /\ saves[e] = n /\ reopening[e] = Unforced
    BY <1>1
  <2>2. (e \in editorSftp) = FALSE /\ texts = 0
    BY <1>1
  <2>3. Phases(ed[e], saves[e], reopening[e], e \in editorSftp)
    BY <1>5, <2>1, <2>2
  <2>4. Carried(ed[e], saves[e], wasted) /\ Current(ed[e], saves[e], file[ed[e].path])
    BY <1>5, <2>1
  <2>. QED
    BY <1>4, <2>1, <2>2, <2>3, <2>4
<1>9. FilesFit
  BY <1>1, <1>6 DEF FilesFit
<1>10. Closing
  BY <1>1 DEF Closing, NotClosing
<1>11. WrittenKept
  BY <1>1 DEF WrittenKept
<1>12. RemovedComesBack
  <2>1. \A p \in EditorPaths : file[p] # Gone
    BY <1>6 DEF Gone, Encodings
  <2>. QED
    BY <2>1 DEF RemovedComesBack
<1>. QED
  BY <1>7, <1>8, <1>9, <1>10, <1>11, <1>12 DEF EInv

LEMMA IInvInit == Init => IInv
<1>. SUFFICES ASSUME Init PROVE IInv
  OBVIOUS
<1>1. DialogInit /\ FileInit /\ EditorInit
  BY DEF Init
<1>2. Asked
  BY <1>1 DEF DialogInit, Asked, NoQuestion, Questions
<1>. QED
  BY <1>1, <1>2, TabsInit, ServerInit, EditorsInit DEF IInv

LEMMA IInvNext == IInv /\ [Next]_filesVars => IInv'
<1>. SUFFICES ASSUME IInv, [Next]_filesVars PROVE IInv'
  OBVIOUS
<1>. USE DEF IInv
<1>1. CASE FileNext /\ UNCHANGED <<editorVars, editorOps, settingsOps>>
  <2>1. EInv'
    BY <1>1, EditorKept
  <2>2. UNCHANGED ed
    BY <1>1 DEF editorVars
  <2>. QED
    BY <1>1, <2>1, <2>2, FileTabsStep, FileServerStep, FileDialogStep
<1>2. CASE EditorNext /\ UNCHANGED <<fileVars, fileOps, settingsOps>>
  <2>1. UNCHANGED tabPart /\ UNCHANGED serverPart
    BY <1>2 DEF fileVars, tabPart, serverPart
  <2>. QED
    BY <1>2, <2>1, TabsKept, ServerKept, EditorStep, EditorDialogStep
<1>3. CASE Elsewhere
  <2>1. UNCHANGED <<fileVars, editorVars>> /\ (AskElsewhere \/ AnswerElsewhere)
    BY <1>3 DEF Elsewhere
  <2>2. UNCHANGED tabPart /\ UNCHANGED serverPart
    BY <2>1 DEF fileVars, tabPart, serverPart
  <2>3. Asked'
    <3>. DEFINE none == {}
                k == [by |-> "settings", tab |-> "none", paths |-> none]
    <3>1. dialog' = k \/ dialog' = NoQuestion
      BY <2>1 DEF AskElsewhere, AnswerElsewhere, Asks, Settles
    <3>. HIDE DEF none
    <3>2. CASE dialog' = k
      BY <3>2 DEF Asked, Questions
    <3>. QED
      BY <3>1, <3>2, NobodyAsked
  <2>. QED
    BY <2>1, <2>2, <2>3, TabsKept, ServerKept, EditorKept
<1>4. CASE UNCHANGED filesVars
  <2>1. UNCHANGED <<dialog, ed>> /\ UNCHANGED tabPart /\ UNCHANGED serverPart /\ UNCHANGED editorVars
    BY <1>4 DEF filesVars, fileVars, tabPart, serverPart, editorVars, dialogVars
  <2>. QED
    BY <2>1, TabsKept, ServerKept, EditorKept, NoEditorMoves, StaysAsked
<1>. QED
  BY <1>1, <1>2, <1>3, <1>4 DEF Next

(* Every state of the specification satisfies the invariant.               *)
THEOREM FilesInvariant == Spec => []IInv
BY IInvInit, IInvNext, PTL DEF Spec

-----------------------------------------------------------------------------
(* What the invariant says                                                 *)

(* Tabs, tasks and editors are always of the form the code gives them.     *)
THEOREM FilesHaveTypes == Spec => []TypeOK
<1>1. IInv => TypeOK
  <2>. SUFFICES ASSUME IInv PROVE TypeOK
    OBVIOUS
  <2>1. TabInv /\ ServerInv /\ EInv
    BY DEF IInv
  <2>2. FileTypeOK
    BY <2>1 DEF TabInv, TabTypes, ServerInv, ServerTypes, Tab, Clip, Task, FileTypeOK
  <2>3. ASSUME NEW e \in Editors
        PROVE  /\ ed[e].pc \in {"none", "asking", "connecting", "reading", "online", "error", "closed"}
               /\ ed[e].path \in EditorPaths \cup {"none"} /\ ed[e].enc \in Encodings
               /\ ed[e].text[1] \in 0..texts
               /\ Len(saves[e]) <= MaxSaves /\ reopening[e] \in Encodings \cup {Unforced}
    <3>1. ed[e].text[1] \in 0..texts
      BY <2>1, EditorFacts, SameParts
    <3>. QED
      BY <2>1, <3>1, EditorFacts DEF Editor, Encodings
  <2>4. EditorTypeOK
    BY <2>1, <2>3, SameParts, Variables DEF EditorTypeOK, VarFacts
  <2>. QED
    BY <2>2, <2>4 DEF TypeOK
<1>. QED
  BY <1>1, FilesInvariant, PTL

(* A tab is in a directory of its history, and shows the rows of it when   *)
(* its last listing has come and nothing overtook it (refreshFileTab).     *)
THEOREM RowsAreOfTheDirectory == Spec => []ShowsCwd
<1>1. IInv => ShowsCwd
  <2>. SUFFICES ASSUME IInv, NEW t \in FTabs
                PROVE  /\ ft[t].at \in DOMAIN ft[t].history /\ ft[t].history[ft[t].at] = ft[t].cwd
                       /\ (ft[t].pc = "online" /\ ft[t].open /\ listing[t] = <<>>
                             /\ ~ft[t].failed /\ t \notin crossed) => ft[t].shown = ft[t].cwd
    BY DEF ShowsCwd
  <2>1. ft[t] \in Tab /\ Shows(ft[t], listing[t], t \in crossed)
    BY TabFacts DEF IInv
  <2>2. DOMAIN ft[t].history = 1..Len(ft[t].history)
    BY <2>1 DEF Tab
  <2>. QED
    BY <2>1, <2>2 DEF Shows
<1>. QED
  BY <1>1, FilesInvariant, PTL

(* Whatever pastes, drops, renames and deletions overlap, a file goes only *)
(* if the user agreed to delete its path, or another was copied onto it.   *)
THEOREM NoFileIsLost == Spec => []NothingLost
<1>1. IInv => NothingLost
  BY DEF IInv, ServerInv
<1>. QED
  BY <1>1, FilesInvariant, PTL

(* Saves, reopenings and closings, failed or overlapping, lose no text:    *)
(* a clean editor shows the file, what the user wrote is in an editor or   *)
(* on the server, and a file that a save removed can be brought back.      *)
THEOREM NoTextIsLost == Spec => []TextsKept
<1>1. IInv => TextsKept
  <2>. SUFFICES ASSUME IInv PROVE TextsKept
    OBVIOUS
  <2>1. EInv
    BY DEF IInv
  <2>2. CleanIsSaved
    BY <2>1, EditorFacts DEF CleanIsSaved, Current, Matches
  <2>. QED
    BY <2>1, <2>2 DEF TextsKept, EInv
<1>. QED
  BY <1>1, FilesInvariant, PTL

(* A file the PWA wrote opens as what was saved, with its byte order mark, *)
(* when nobody says which encoding it has (decodeFile, encodeFile).        *)
THEOREM SavedFilesReopen == Spec => []SavedReopens
<1>1. IInv => SavedReopens
  <2>. SUFFICES ASSUME IInv, NEW p \in EditorPaths, file[p].text[1] # 0
                PROVE  /\ Decode(file[p], Unforced).text = file[p].text
                       /\ Decode(file[p], Unforced).enc = file[p].enc
                       /\ Decode(file[p], Unforced).bom = file[p].bom
    BY DEF SavedReopens
  <2>1. file[p] \in Content /\ Readable(file[p])
    BY FileFacts DEF IInv
  <2>. QED
    BY <2>1, ReadableReopens
<1>. QED
  BY <1>1, FilesInvariant, PTL

(* Every SFTP session has a tab, or was connected for a tab that the user  *)
(* had closed meanwhile.                                                   *)
THEOREM SessionsHaveTabs == Spec => []SessionsOwned
<1>1. IInv => SessionsOwned
  <2>. SUFFICES ASSUME IInv PROVE SessionsOwned
    OBVIOUS
  <2>1. ASSUME NEW t \in sftp PROVE ft[t].open \/ t \in late
    BY <2>1, TabFacts DEF IInv, TabInv, TabTypes, Owned
  <2>2. ASSUME NEW e \in editorSftp PROVE ed[e].open \/ ed[e].late
    BY <2>2, EditorFacts, SameParts DEF IInv, Phases, EInv, EditorTypes
  <2>. QED
    BY <2>1, <2>2 DEF SessionsOwned
<1>. QED
  BY <1>1, FilesInvariant, PTL
=============================================================================
