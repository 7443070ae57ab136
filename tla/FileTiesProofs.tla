--------------------------- MODULE FileTiesProofs ---------------------------
(***************************************************************************)
(* Theorems about FileTies for any number of files, rows, ties, answers    *)
(* and writes of the accountant.                                           *)
(***************************************************************************)
EXTENDS FileTies, WellFoundedInduction, TLAPS

\* Well-founded induction, in the form the provers can use: no operator parameter.
LEMMA LeastElement ==
  ASSUME NEW S \in SUBSET Nat, S # {}
  PROVE  \E n \in S : \A m \in S : n <= m
<1> DEFINE less == OpToRel(<, Nat)
<1>1. PICK n \in S : \A m \in S : ~(<<m, n>> \in less)
  BY WFMin, NatLessThanWellFounded
<1>2. \A m \in S : ~(m < n)
  BY <1>1 DEF OpToRel
<1> HIDE DEF less
<1> QED BY <1>2

LEMMA MinIsIn ==
  ASSUME NEW S \in SUBSET Nat, S # {}
  PROVE  Min(S) \in S
BY LeastElement DEF Min

-----------------------------------------------------------------------------
(* Types of rows and files.                                                *)

FileType == [kind : {"none", "pending", "unread", "good", "quarantined", "split"}, company : Company \cup {None},
             employer : Employer \cup {None}, fits : BOOLEAN, match : Row \cup {None}, home : Row \cup {None}]

\* A deleted row keeps nothing; the row a file is filed under exists.
RowsFit ==
  /\ row \in [Row -> Items]
  /\ \A r \in Row : row[r].status = "deleted" => row[r] = Deleted
FilesFit ==
  /\ file \in [File -> FileType]
  /\ \A f \in File : file[f].home # None => file[f].home \in Present(row)
  /\ \A f \in File : file[f].kind = "none" => file[f] = NoFile

SameName(a, b) == a.company = b.company /\ a.named = b.named /\ a.tail = b.tail

\* What the file of a tie says agrees with the item it is tied to.
Agrees(f, item) == file[f].company = None \/ item.company \in {None, file[f].company}

TieFits(p, docs) ==
  /\ p \in [file : File, row : Row, quoted : BOOLEAN]
  /\ p.row \in Present(docs)
  /\ LetThrough(p, docs)
  /\ file[p.file].kind # "none"

TiesFit(docs, ties) ==
  /\ \E n \in 0 .. MaxTies : DOMAIN ties = 1 .. n
  /\ \A k \in DOMAIN ties : TieFits(ties[k], docs)

LEMMA ItemFacts ==
  ASSUME NEW docs \in [Row -> Items], NEW r \in Row
  PROVE  /\ docs[r].status \in Status
         /\ docs[r].company \in Company \cup {None}
         /\ docs[r].named \in SUBSET Employer
         /\ docs[r].tail \in Employer \cup {None}
         /\ None \notin docs[r].named
BY TiesAssumption DEF Items

LEMMA FileFacts ==
  ASSUME FilesFit, NEW f \in File
  PROVE  /\ file[f].company \in Company \cup {None}
         /\ file[f].employer \in Employer \cup {None}
         /\ file[f].home \in Row \cup {None}
BY DEF FilesFit, FileType

-----------------------------------------------------------------------------
(* The place of a tie (planCompanySplit).                                  *)

\* Stage 1 finds the company in the name, or on one of the files tied to the item.
LEMMA HeadCompanyIs ==
  ASSUME FilesFit, NEW docs \in [Row -> Items], NEW ties, TiesFit(docs, ties), NEW d \in Row
  PROVE  /\ HeadCompany(d, docs, ties) \in Company \cup {None}
         /\ docs[d].company # None => HeadCompany(d, docs, ties) = docs[d].company
         /\ docs[d].company = None /\ HeadCompany(d, docs, ties) # None
              => \E k \in DOMAIN ties : ties[k].row = d /\ Issuer(ties[k]) = HeadCompany(d, docs, ties)
<1> DEFINE printed == {k \in DOMAIN ties : ties[k].row = d /\ Issuer(ties[k]) # None}
<1>1. CASE docs[d].company # None
  BY <1>1, ItemFacts DEF HeadCompany
<1>2. CASE docs[d].company = None /\ printed = {}
  BY <1>2 DEF HeadCompany
<1>3. CASE docs[d].company = None /\ printed # {}
  <2>1. DOMAIN ties \in SUBSET Nat
    BY DEF TiesFit
  <2>2. Min(printed) \in printed
    BY <1>3, <2>1, MinIsIn
  <2>3. HeadCompany(d, docs, ties) = Issuer(ties[Min(printed)])
    BY <1>3 DEF HeadCompany
  <2>4. ties[Min(printed)].file \in File
    BY <2>2 DEF TiesFit, TieFits
  <2>5. Issuer(ties[Min(printed)]) \in Company \cup {None}
    BY <2>4, FileFacts DEF Issuer
  <2> HIDE DEF printed
  <2> QED BY <1>3, <2>2, <2>3, <2>5 DEF printed
<1> QED BY <1>1, <1>2, <1>3

\* The company a tie goes to agrees with its file.
LEMMA PlaceCompanyIs ==
  ASSUME FilesFit, NEW docs \in [Row -> Items], NEW ties, TiesFit(docs, ties), NEW k \in DOMAIN ties
  PROVE  /\ PlaceCompany(ties[k], docs, ties) \in Company \cup {None}
         /\ Issuer(ties[k]) = None \/ PlaceCompany(ties[k], docs, ties) \in {None, Issuer(ties[k])}
         /\ docs[ties[k].row].company = None /\ Issuer(ties[k]) # None
              => PlaceCompany(ties[k], docs, ties) = Issuer(ties[k])
<1> DEFINE p == ties[k]
<1>1. p.row \in Row /\ p.file \in File /\ LetThrough(p, docs)
  BY DEF TiesFit, TieFits
<1>2. Issuer(p) \in Company \cup {None}
  BY <1>1, FileFacts DEF Issuer
<1>3. docs[p.row].company # None => Issuer(p) \in {None, docs[p.row].company}
  BY <1>1 DEF LetThrough, Allowed, Differ, Issuer
<1> HIDE DEF p
<1>4. /\ HeadCompany(p.row, docs, ties) \in Company \cup {None}
      /\ docs[p.row].company # None => HeadCompany(p.row, docs, ties) = docs[p.row].company
  BY <1>1, HeadCompanyIs
<1>5. /\ PlaceCompany(p, docs, ties) \in Company \cup {None}
      /\ Issuer(p) = None \/ PlaceCompany(p, docs, ties) \in {None, Issuer(p)}
      /\ docs[p.row].company = None /\ Issuer(p) # None => PlaceCompany(p, docs, ties) = Issuer(p)
  BY <1>2, <1>3, <1>4 DEF PlaceCompany
<1> QED BY <1>5 DEF p

LEMMA CompanyItemIs ==
  ASSUME NEW docs \in [Row -> Items], NEW d \in Row, NEW c \in Company \cup {None}
  PROVE  /\ CompanyItem(d, c, docs) \in Items
         /\ CompanyItem(d, c, docs).company = c
         /\ docs[d].company = c => CompanyItem(d, c, docs) = docs[d]
         /\ docs[d].company # c => CompanyItem(d, c, docs).tail = None
<1>1. docs[d] \in Items
  OBVIOUS
<1>2. CASE docs[d].company = c
  BY <1>1, <1>2 DEF CompanyItem
<1>3. CASE docs[d].company # c
  BY <1>1, <1>3 DEF CompanyItem, Items
<1> QED BY <1>2, <1>3

LEMMA EndsIs ==
  ASSUME NEW item \in Items, NEW e \in Employer
  PROVE  /\ Ends(item, e) \in Items
         /\ Ends(item, e).company = item.company
         /\ e \in Ends(item, e).named
<1> DEFINE t == IF item.company = None THEN None ELSE e
<1>1. Ends(item, e) = [status |-> item.status, company |-> item.company, named |-> item.named \cup {e}, tail |-> t]
  <2>1. item = [status |-> item.status, company |-> item.company, named |-> item.named, tail |-> item.tail]
    BY DEF Items
  <2>2. Ends(item, e) = [item EXCEPT !.named = item.named \cup {e}, !.tail = t]
    BY DEF Ends
  <2> HIDE DEF t
  <2> QED BY <2>1, <2>2 DEF Items
<1>2. t \in Employer \cup {None}
  OBVIOUS
<1> HIDE DEF t
<1> QED BY <1>1, <1>2 DEF Items

\* Stage 2 finds an employer on one of the files of the company's item.
LEMMA LeadIs ==
  ASSUME FilesFit, NEW docs \in [Row -> Items], NEW ties, TiesFit(docs, ties), NEW d, NEW c
  PROVE  /\ Lead(d, c, docs, ties) \in Employer \cup {None}
         /\ Lead(d, c, docs, ties) # None
              => \E k \in DOMAIN ties :
                   /\ ties[k].row = d /\ PlaceCompany(ties[k], docs, ties) = c
                   /\ PrintedEmployer(ties[k]) = Lead(d, c, docs, ties)
         /\ Lead(d, c, docs, ties) = None
              => \A k \in DOMAIN ties :
                   ties[k].row = d /\ PlaceCompany(ties[k], docs, ties) = c => PrintedEmployer(ties[k]) = None
<1> DEFINE printed == {k \in DOMAIN ties :
        /\ ties[k].row = d /\ PlaceCompany(ties[k], docs, ties) = c
        /\ PrintedEmployer(ties[k]) # None}
<1>1. CASE printed = {}
  BY <1>1 DEF Lead
<1>2. CASE printed # {}
  <2>1. DOMAIN ties \in SUBSET Nat
    BY DEF TiesFit
  <2>2. Min(printed) \in printed
    BY <1>2, <2>1, MinIsIn
  <2>3. Lead(d, c, docs, ties) = PrintedEmployer(ties[Min(printed)])
    BY <1>2 DEF Lead
  <2>4. ties[Min(printed)].file \in File
    BY <2>2 DEF TiesFit, TieFits
  <2>5. PrintedEmployer(ties[Min(printed)]) \in Employer \cup {None}
    BY <2>4, FileFacts DEF PrintedEmployer
  <2> HIDE DEF printed
  <2> QED BY <2>2, <2>3, <2>5 DEF printed
<1> QED BY <1>1, <1>2

LEMMA EmployerItemIs ==
  ASSUME FilesFit, NEW docs \in [Row -> Items], NEW ties, TiesFit(docs, ties),
         NEW d \in Row, NEW c \in Company \cup {None}
  PROVE  /\ EmployerItem(d, c, docs, ties) \in Items
         /\ EmployerItem(d, c, docs, ties).company = c
         /\ EmployerItem(d, c, docs, ties) # CompanyItem(d, c, docs)
              => /\ CompanyItem(d, c, docs).tail = None
                 /\ Lead(d, c, docs, ties) \in EmployerItem(d, c, docs, ties).named
<1> DEFINE item == CompanyItem(d, c, docs)
           lead == Lead(d, c, docs, ties)
<1>1. item \in Items /\ item.company = c
  BY CompanyItemIs
<1>2. lead \in Employer \cup {None}
  BY LeadIs
<1>3. EmployerItem(d, c, docs, ties)
        = IF item.tail # None \/ lead \in item.named \cup {None} THEN item ELSE Ends(item, lead)
  BY DEF EmployerItem
<1> HIDE DEF item, lead
<1>4. CASE item.tail # None \/ lead \in item.named \cup {None}
  BY <1>1, <1>3, <1>4 DEF item
<1>5. CASE ~(item.tail # None \/ lead \in item.named \cup {None})
  <2>1. lead \in Employer
    BY <1>2, <1>5
  <2>2. Ends(item, lead) \in Items /\ Ends(item, lead).company = c /\ lead \in Ends(item, lead).named
    BY <1>1, <2>1, EndsIs
  <2> QED BY <1>3, <1>5, <2>2 DEF item, lead
<1> QED BY <1>4, <1>5

\* The row a tie ends on carries the company and the employer of the file.
LEMMA PlaceNames ==
  ASSUME FilesFit, NEW docs \in [Row -> Items], NEW ties, TiesFit(docs, ties), NEW k \in DOMAIN ties
  PROVE  LET item == ItemAt(Place(ties[k], docs, ties), docs, ties)
         IN  /\ item \in Items
             /\ Agrees(ties[k].file, item)
             /\ file[ties[k].file].employer \in item.named \cup {None}
<1> DEFINE p == ties[k]
           c == PlaceCompany(p, docs, ties)
           e == PrintedEmployer(p)
           base == EmployerItem(p.row, c, docs, ties)
           place == Place(p, docs, ties)
           comp == CompanyItem(p.row, c, docs)
           item == ItemAt(place, docs, ties)
<1>1. p.row \in Row /\ p.file \in File
  BY DEF TiesFit, TieFits
<1>2. e \in Employer \cup {None}
  BY <1>1, FileFacts DEF PrintedEmployer
<1>3. c \in Company \cup {None} /\ (Issuer(p) = None \/ c \in {None, Issuer(p)})
  BY PlaceCompanyIs
<1>4. base \in Items /\ base.company = c
  BY <1>1, <1>3, EmployerItemIs
<1>5. comp \in Items /\ comp.company = c
  BY <1>1, <1>3, CompanyItemIs
<1>6. place = [from |-> p.row, company |-> c, employer |-> IF e \in base.named THEN None ELSE e]
  BY DEF Place
<1>7. item = IF place.employer = None THEN EmployerItem(place.from, place.company, docs, ties)
             ELSE Ends([CompanyItem(place.from, place.company, docs) EXCEPT
                          !.named = @ \ {CompanyItem(place.from, place.company, docs).tail}], place.employer)
  BY DEF ItemAt
<1>8. place.from = p.row /\ place.company = c
  BY <1>6
<1>9. item = IF place.employer = None THEN base
             ELSE Ends([comp EXCEPT !.named = comp.named \ {comp.tail}], place.employer)
  BY <1>7, <1>8
<1>10. place.employer = IF e \in base.named THEN None ELSE e
  BY <1>6
<1> HIDE DEF p, c, e, base, place, comp, item
<1>11. item \in Items /\ item.company = c /\ e \in item.named \cup {None}
  <2>1. CASE place.employer = None
    BY <1>4, <1>9, <1>10, <2>1
  <2>2. CASE place.employer # None
    <3>1. place.employer = e /\ e \in Employer
      BY <1>2, <1>10, <2>2
    <3> DEFINE bare == [comp EXCEPT !.named = comp.named \ {comp.tail}]
    <3>2. bare \in Items /\ bare.company = c
      BY <1>5 DEF Items
    <3>3. item = Ends(bare, e)
      BY <1>9, <2>2, <3>1
    <3> HIDE DEF bare
    <3> QED BY <3>1, <3>2, <3>3, EndsIs
  <2> QED BY <2>1, <2>2
<1> QED BY <1>3, <1>11 DEF Agrees, p, e, item, place, Issuer, PrintedEmployer

\* A renamed item keeps a file: the one its new name was read from.
LEMMA RenamedKeepsFile ==
  ASSUME FilesFit, NEW docs \in [Row -> Items], NEW ties, TiesFit(docs, ties), NEW d \in Renamed(docs, ties)
  PROVE  \E k \in DOMAIN ties : ties[k].row = d /\ Place(ties[k], docs, ties) = HeadPlace(d, docs, ties)
<1> DEFINE c == HeadCompany(d, docs, ties)
           comp == CompanyItem(d, c, docs)
           base == EmployerItem(d, c, docs, ties)
           lead == Lead(d, c, docs, ties)
<1>1. d \in Row
  BY DEF Renamed, Heads, TiesFit, TieFits
<1>2. /\ c \in Company \cup {None}
      /\ docs[d].company # None => c = docs[d].company
      /\ docs[d].company = None /\ c # None => \E k \in DOMAIN ties : ties[k].row = d /\ Issuer(ties[k]) = c
  BY <1>1, HeadCompanyIs
<1>3. base # docs[d]
  <2>1. ItemAt(HeadPlace(d, docs, ties), docs, ties) # docs[d]
    BY DEF Renamed
  <2> QED BY <2>1 DEF ItemAt, HeadPlace
<1>4. /\ base.company = c /\ base \in Items
      /\ base # comp => comp.tail = None /\ lead \in base.named
  BY <1>1, <1>2, EmployerItemIs
<1>5. /\ docs[d].company = c => comp = docs[d]
      /\ docs[d].company # c => comp.tail = None
  BY <1>1, <1>2, CompanyItemIs
<1>6. base = IF comp.tail # None \/ lead \in comp.named \cup {None} THEN comp ELSE Ends(comp, lead)
  BY DEF EmployerItem
<1>7. ASSUME NEW k \in DOMAIN ties, ties[k].row = d, PlaceCompany(ties[k], docs, ties) = c,
             PrintedEmployer(ties[k]) \in base.named \cup {None}
      PROVE  Place(ties[k], docs, ties) = HeadPlace(d, docs, ties)
  <2>1. None \notin base.named
    BY <1>4, TiesAssumption DEF Items
  <2> QED BY <1>7, <2>1 DEF Place, HeadPlace
<1> HIDE DEF c, comp, base, lead
<1>8. CASE lead # None
  <2>1. PICK k \in DOMAIN ties : ties[k].row = d /\ PlaceCompany(ties[k], docs, ties) = c
                                 /\ PrintedEmployer(ties[k]) = lead
    BY <1>8, LeadIs DEF lead
  <2>2. lead \in base.named
    <3>1. CASE base # comp
      BY <1>4, <3>1
    <3>2. CASE base = comp
      <4>1. docs[d].company # c
        BY <1>3, <1>5, <3>2
      <4>2. comp.tail = None
        BY <1>5, <4>1
      <4>3. lead \in comp.named \/ comp = Ends(comp, lead)
        BY <1>6, <1>8, <3>2, <4>2
      <4>4. lead \in Employer /\ comp \in Items
        BY <1>4, <1>8, <3>2, LeadIs DEF lead
      <4> QED BY <3>2, <4>3, <4>4, EndsIs
    <3> QED BY <3>1, <3>2
  <2> QED BY <1>7, <2>1, <2>2
<1>9. CASE lead = None
  <2>1. base = comp
    BY <1>6, <1>9
  <2>2. docs[d].company = None /\ c # None
    BY <1>2, <1>3, <1>5, <2>1
  <2>3. PICK k \in DOMAIN ties : ties[k].row = d /\ Issuer(ties[k]) = c
    BY <1>2, <2>2
  <2>4. PlaceCompany(ties[k], docs, ties) = c
    BY <2>2, <2>3, PlaceCompanyIs
  <2>5. PrintedEmployer(ties[k]) = None
    BY <1>9, <2>3, <2>4, LeadIs DEF lead
  <2> QED BY <1>7, <2>3, <2>4, <2>5
<1> QED BY <1>8, <1>9

-----------------------------------------------------------------------------
(***************************************************************************)
(* The cycle.  While the answer waits to be applied, the rows keep the     *)
(* names it was given for, unless the accountant renames or deletes them;  *)
(* afterwards the file of each pair agrees with the row the pair ended on, *)
(* unless it was renamed, files that say the same are together, and what   *)
(* the split named keeps a file.                                           *)
(***************************************************************************)
LastTurn == 2 * MaxTies + 1

\* The file taken for the row the answer created.
NewFits(p, docs, ties) ==
  /\ p.file \in File /\ p.row \in Row /\ p.of = p.row /\ p.at = LastTurn
  /\ docs[p.row].status = "pending"
  /\ file[p.file].kind # "none" /\ Agrees(p.file, docs[p.row])
  /\ \A k \in DOMAIN ties : ties[k].row # p.row

IdleFits ==
  /\ run.pc \in {"idle", "split", "collect", "link", "verify"}
  /\ run.pc = "idle" => run = Idle
  /\ run.pc = "link" => run = [pc |-> "link", touched |-> run.touched, divided |-> run.divided,
                                pairs |-> run.pairs, targets |-> run.targets]
  /\ recast \subseteq Row
  /\ cycles \in 0 .. MaxCycles
  /\ edits \in 0 .. MaxEdits

SplitFits == run.pc = "split" =>
  /\ run.docs \in [Row -> Items]
  /\ TiesFit(run.docs, run.ties)
  /\ \A r \in Row : /\ row[r].status = "absent" <=> run.docs[r].status = "absent"
                    /\ row[r] = Deleted \/ r \in recast \/ SameName(row[r], run.docs[r])
  /\ \A p \in run.new : NewFits(p, run.docs, run.ties)
  /\ \A p, q \in run.new : p = q

PairFits(p) ==
  /\ p.file \in File /\ p.row \in Row /\ p.of \in Row /\ p.at \in 1 .. LastTurn
  /\ file[p.file].kind # "none"
  /\ row[p.row].status # "absent"
  /\ row[p.row] = Deleted \/ p.row \in recast
     \/ /\ Agrees(p.file, row[p.row])
        /\ p.row \in run.divided => file[p.file].employer \in row[p.row].named \cup {None}

Together(p, q) ==
  LET f == file[p.file]  g == file[q.file]
  IN  p.of = q.of /\ f.company = g.company /\ f.employer = g.employer /\ None \notin {f.company, f.employer}
        => p.row = q.row

PairsFit == run.pc \in {"collect", "link", "verify"} =>
  /\ \A p \in run.pairs : PairFits(p)
  /\ \A p, q \in run.pairs : Together(p, q) /\ (p.at = q.at => p = q)
  /\ \A r \in run.touched : \E p \in run.pairs : p.row = r

\* What a row the split named is verified against.
TargetsFit == run.pc \in {"link", "verify"} =>
  \A t \in run.targets :
    t.row \in run.touched => \E p \in run.pairs : p.row = t.row /\ p.file = t.file

\* A file that was tied once is filed where its pair says.
Single(f) == \A p, q \in run.pairs : p.file = f /\ q.file = f => p = q
FiledFit == run.pc = "verify" =>
  \A p \in run.pairs :
    Single(p.file) /\ Fileable(p.file) /\ row[p.row] # Deleted => file[p.file].home = p.row

TiesInv ==
  RowsFit /\ FilesFit /\ IdleFits /\ SplitFits /\ PairsFit /\ TargetsFit /\ FiledFit

LEMMA StoredIsKind ==
  ASSUME TiesInv, NEW f \in File, file[f] # NoFile
  PROVE  file[f].kind # "none"
BY DEF TiesInv, FilesFit

LEMMA InitInv == Init => TiesInv
<1> SUFFICES ASSUME Init PROVE TiesInv
  OBVIOUS
<1>1. \A r \in Row : row[r] \in Names \cup {NoItem}
  BY DEF Init, Names
<1>2. Names \cup {NoItem} \subseteq Items
  BY DEF Names, NoItem, Item, Items, Status
<1>3. row \in [Row -> Items]
  BY <1>1, <1>2 DEF Init
<1>4. \A r \in Row : row[r].status # "deleted"
  BY <1>1 DEF Names, NoItem, Item
<1>5. FilesFit
  BY DEF Init, FilesFit, FileType, NoFile
<1>6. run.pc = "idle" /\ run = Idle
  BY DEF Init, Idle
<1> QED
  BY <1>3, <1>4, <1>5, <1>6, TiesAssumption
     DEF Init, TiesInv, RowsFit, IdleFits, SplitFits, PairsFit, TargetsFit, FiledFit

\* What is stored of a file, and what its analysis makes of it.
LEMMA StoredAs ==
  ASSUME NEW h \in Present(row) \cup {None},
         NEW a \in Analyses \cup {Unread("pending", None)} \cup {Unread("unread", h)}
  PROVE  a \in FileType /\ a.kind # "none" /\ a.home \in {None, h}
<1>1. Present(row) \subseteq Row
  BY DEF Present
<1>2. CASE a \in Analyses
  BY <1>1, <1>2 DEF Analyses, FileType
<1>3. CASE a \in {Unread("pending", None), Unread("unread", h)}
  BY <1>1, <1>3 DEF Unread, NoFile, FileType
<1> QED BY <1>2, <1>3

\* A file arrives, or its analysis ends.
LEMMA ArriveInv ==
  ASSUME TiesInv, NEW f \in File, Arrive(f) \/ Analysed(f)
  PROVE  TiesInv'
<1>1. run.pc = "idle" /\ run' = run /\ row' = row /\ recast' = recast /\ cycles' = cycles /\ edits' = edits
  BY DEF Arrive, Analysed, Idle
<1>2. file \in [File -> FileType] /\ \A g \in File : file[g].home # None => file[g].home \in Present(row)
  BY DEF TiesInv, FilesFit
<1>3. PICK g \in FileType :
        file' = [file EXCEPT ![f] = g] /\ g.kind # "none" /\ (g.home # None => g.home \in Present(row))
  <2>1. CASE Arrive(f)
    <3>1. PICK h \in Present(row) \cup {None} :
            \E a \in Analyses \cup {Unread("pending", None)} \cup {Unread("unread", h)} :
              file' = [file EXCEPT ![f] = a]
      BY <2>1 DEF Arrive
    <3>2. PICK a \in Analyses \cup {Unread("pending", None)} \cup {Unread("unread", h)} :
            file' = [file EXCEPT ![f] = a]
      BY <3>1
    <3>3. a \in FileType /\ a.kind # "none" /\ a.home \in {None, h}
      BY StoredAs
    <3> QED BY <3>2, <3>3
  <2>2. CASE Analysed(f)
    <3>1. PICK a \in Analyses \cup {Unread("unread", None)} :
            file' = [file EXCEPT ![f] = [a EXCEPT !.home = file[f].home]]
      BY <2>2 DEF Analysed
    <3>2. a \in FileType /\ a.kind # "none"
      BY StoredAs
    <3>3. file[f].home \in Row \cup {None}
      BY <1>2 DEF Present
    <3>4. PICK g : g = [a EXCEPT !.home = file[f].home]
      OBVIOUS
    <3>5. g \in FileType /\ g.kind # "none" /\ g.home = file[f].home
      BY <3>2, <3>3, <3>4 DEF FileType
    <3> QED BY <1>2, <3>1, <3>4, <3>5
  <2> QED BY <2>1, <2>2
<1>4. FilesFit'
  BY <1>1, <1>2, <1>3 DEF TiesInv, FilesFit, Present
<1>5. RowsFit' /\ IdleFits'
  BY <1>1 DEF TiesInv, RowsFit, IdleFits
<1> QED
  BY <1>1, <1>4, <1>5 DEF TiesInv, SplitFits, PairsFit, TargetsFit, FiledFit

\* The answer's ties and new row.
LEMMA AnswerInv ==
  ASSUME TiesInv, Answer
  PROVE  TiesInv'
<1> USE DEF TiesInv
<1>1. PICK add \in {None} \cup {r \in Spare(row) : \A s \in Spare(row) : r <= s}, c \in Company \cup {None} :
       /\ row' = IF add = None THEN row ELSE [row EXCEPT ![add] = Item("pending", c, {}, None)]
       /\ \E ties \in BoundedSeq({p \in Ties(row) : LetThrough(p, row')}, MaxTies),
             refused \in SUBSET {p.row : p \in {q \in Ties(row) : Refuses(q, row')}},
             names \in BoundedSeq(IF add = None THEN {} ELSE Stored, MaxTies),
             marked \in SUBSET Present(row) :
          /\ LET new == IF add = None THEN {} ELSE NewPair(add, names, row')
             IN  run' = [pc |-> "split", docs |-> row', ties |-> ties, new |-> new,
                         homes |-> [f \in File |-> file[f].home], refused |-> refused,
                         marked |-> marked \cup {p.row : p \in new}]
  BY ZenonT(60) DEF Answer
<1>2. PICK ties \in BoundedSeq({p \in Ties(row) : LetThrough(p, row')}, MaxTies),
           refused \in SUBSET {p.row : p \in {q \in Ties(row) : Refuses(q, row')}},
           names \in BoundedSeq(IF add = None THEN {} ELSE Stored, MaxTies),
           marked \in SUBSET Present(row) :
             LET new == IF add = None THEN {} ELSE NewPair(add, names, row')
             IN  run' = [pc |-> "split", docs |-> row', ties |-> ties, new |-> new,
                         homes |-> [f \in File |-> file[f].home], refused |-> refused,
                         marked |-> marked \cup {p.row : p \in new}]
  BY <1>1
<1>3. /\ file' = file /\ edits' = edits /\ cycles' = cycles + 1 /\ cycles < MaxCycles /\ recast' = {}
  BY DEF Answer
<1>4. add # None => add \in Row /\ row[add].status = "absent"
  BY <1>1 DEF Spare
<1>5. Item("pending", c, {}, None) \in Items
  BY DEF Item, Items, Status
<1>6. /\ row' \in [Row -> Items]
      /\ add # None => row'[add] = Item("pending", c, {}, None)
      /\ \A r \in Row : r # add => row'[r] = row[r]
  BY <1>1, <1>4, <1>5 DEF RowsFit
<1>7. RowsFit'
  <2>1. ASSUME NEW r \in Row, row'[r].status = "deleted" PROVE row'[r] = Deleted
    <3>1. r # add
      BY <1>6, <2>1, TiesAssumption DEF Item
    <3> QED BY <1>6, <2>1, <3>1 DEF RowsFit
  <2> QED BY <1>6, <2>1 DEF RowsFit
<1>8. FilesFit'
  <2>1. \A r \in Present(row) : r \in Present(row')
    <3>1. \A r \in Present(row) : r # add
      BY <1>4, TiesAssumption DEF Present
    <3> QED BY <1>6, <3>1 DEF Present
  <2> QED BY <1>3, <2>1 DEF FilesFit
<1>9. IdleFits'
  BY <1>2, <1>3, TiesAssumption DEF IdleFits
<1>10. PICK docs \in [Row -> Items] : docs = row'
  BY <1>6
<1>11. /\ run'.pc = "split" /\ run'.docs = docs /\ run'.ties = ties
       /\ run'.new = IF add = None THEN {} ELSE NewPair(add, names, docs)
  <2> DEFINE new == IF add = None THEN {} ELSE NewPair(add, names, row')
             gone == marked \cup {p.row : p \in new}
             homes == [f \in File |-> file[f].home]
  <2>1. run' = [pc |-> "split", docs |-> row', ties |-> ties, new |-> new, homes |-> homes,
                refused |-> refused, marked |-> gone]
    BY <1>2
  <2> HIDE DEF gone, homes
  <2> QED BY <1>10, <2>1
<1>12. PICK n \in 0 .. MaxTies : ties \in [1 .. n -> {p \in Ties(row) : LetThrough(p, docs)}]
  BY <1>2, <1>10 DEF BoundedSeq, SeqOf
<1>13. ASSUME NEW k \in DOMAIN ties
       PROVE  TieFits(ties[k], docs)' /\ ties[k].row \in Present(row)
  <2>1. ties[k] \in Ties(row) /\ LetThrough(ties[k], docs)
    BY <1>12
  <2>2. PICK f \in Stored, r \in Present(row), q \in BOOLEAN : ties[k] = Tie(f, r, q)
    BY <2>1 DEF Ties
  <2>3. f \in File /\ file[f] # NoFile /\ r \in Row /\ r \in Present(docs)
    <3>1. r # add
      BY <1>4, TiesAssumption DEF Present
    <3> QED BY <1>6, <1>10, <3>1 DEF Stored, Present
  <2>4. ties[k] \in [file : File, row : Row, quoted : BOOLEAN] /\ ties[k].file = f /\ ties[k].row = r
    BY <2>2, <2>3 DEF Tie
  <2>5. file[f].kind # "none"
    BY <2>3, StoredIsKind
  <2>6. TieFits(ties[k], docs)
    BY <2>1, <2>3, <2>4, <2>5 DEF TieFits
  <2> QED BY <1>3, <2>2, <2>4, <2>6 DEF TieFits, LetThrough, Allowed, Differ
<1>14. TiesFit(docs, ties)'
  BY <1>12, <1>13 DEF TiesFit
<1>15. ASSUME NEW p \in run'.new
       PROVE  NewFits(p, docs, ties)'
  <2> DEFINE fit == {k \in DOMAIN names : Fits(names[k], docs[add])}
  <2>1. add # None /\ p \in NewPair(add, names, docs)
    BY <1>11
  <2>2. fit # {} /\ p = Pair(names[Min(fit)], add, add, LastTurn)
    BY <2>1 DEF NewPair, LastTurn
  <2>3. PICK m \in 0 .. MaxTies : names \in [1 .. m -> Stored]
    BY <1>2, <2>1 DEF BoundedSeq, SeqOf
  <2>4. Min(fit) \in fit
    <3>1. fit \in SUBSET Nat
      BY <2>3
    <3> HIDE DEF fit
    <3> QED BY <2>2, <3>1, MinIsIn
  <2>5. PICK f \in File : p = Pair(f, add, add, LastTurn) /\ Fits(f, docs[add])
    BY <2>2, <2>3, <2>4 DEF Stored
  <2>6. \A k \in DOMAIN ties : ties[k].row # add
    BY <1>4, <1>13, <2>1 DEF Present
  <2>7. docs[add].status = "pending" /\ add \in Row
    BY <1>4, <1>6, <1>10, <2>1 DEF Item
  <2>8. file[f].kind # "none" /\ Agrees(f, docs[add])
    BY <2>5 DEF Fits, Good, Differ, Agrees
  <2> HIDE DEF fit
  <2> QED BY <1>3, <2>5, <2>6, <2>7, <2>8 DEF NewFits, Pair, Agrees
<1>16. \A p, q \in run'.new : p = q
  BY <1>11 DEF NewPair
<1>17. SplitFits'
  BY <1>10, <1>11, <1>14, <1>15, <1>16 DEF SplitFits, SameName
<1> QED
  BY <1>7, <1>8, <1>9, <1>11, <1>17 DEF PairsFit, TargetsFit, FiledFit

\* What code lets through agrees with the item it was made to.
LEMMA LetThroughAgrees ==
  ASSUME NEW docs, NEW p, LetThrough(p, docs)
  PROVE  Agrees(p.file, docs[p.row])
BY DEF LetThrough, Allowed, Differ, Agrees

\* Every place but the one an item keeps belongs to a tie.
LEMMA HeadPlaceIs ==
  ASSUME NEW docs, NEW ties, NEW k \in DOMAIN ties, Place(ties[k], docs, ties) \notin NewPlaces(docs, ties)
  PROVE  Place(ties[k], docs, ties) = HeadPlace(ties[k].row, docs, ties)
<1>1. PICK d \in Heads(ties) : Place(ties[k], docs, ties) = HeadPlace(d, docs, ties)
  BY DEF NewPlaces
<1>2. Place(ties[k], docs, ties).from = ties[k].row
  BY DEF Place
<1>3. HeadPlace(d, docs, ties).from = d
  BY DEF HeadPlace
<1> QED BY <1>1, <1>2, <1>3

LEMMA NewPlaceIs ==
  ASSUME NEW docs, NEW ties, NEW p \in NewPlaces(docs, ties)
  PROVE  /\ \E k \in DOMAIN ties : p = Place(ties[k], docs, ties)
         /\ p.from \in Heads(ties)
         /\ \A d \in Heads(ties) : p # HeadPlace(d, docs, ties)
BY DEF NewPlaces, Place, Heads

\* Files of one item that say the same have one place.
LEMMA SamePlace ==
  ASSUME NEW docs, NEW ties, NEW p, NEW q, p.row = q.row, Issuer(p) = Issuer(q),
         PrintedEmployer(p) = PrintedEmployer(q)
  PROVE  Place(p, docs, ties) = Place(q, docs, ties)
<1>1. PlaceCompany(p, docs, ties) = PlaceCompany(q, docs, ties)
  BY DEF PlaceCompany
<1> QED BY <1>1 DEF Place

LEMMA HeadItemIs ==
  ASSUME FilesFit, NEW docs \in [Row -> Items], NEW ties, TiesFit(docs, ties), NEW d \in Row
  PROVE  ItemAt(HeadPlace(d, docs, ties), docs, ties) \in Items
<1>1. HeadCompany(d, docs, ties) \in Company \cup {None}
  BY HeadCompanyIs
<1>2. ItemAt(HeadPlace(d, docs, ties), docs, ties) = EmployerItem(d, HeadCompany(d, docs, ties), docs, ties)
  BY DEF ItemAt, HeadPlace
<1> QED BY <1>1, <1>2, EmployerItemIs

LEMMA StatusKeepsName ==
  ASSUME NEW item \in Items, NEW st \in Status
  PROVE  /\ [item EXCEPT !.status = st] \in Items
         /\ [item EXCEPT !.status = st].status = st
         /\ SameName([item EXCEPT !.status = st], item)
BY DEF Items, SameName

\* The items are divided: the file of every tie agrees with the row it ends on.
LEMMA SplitItemsInv ==
  ASSUME TiesInv, SplitItems
  PROVE  TiesInv'
<1> DEFINE docs   == run.docs
           ties   == run.ties
           pend   == run.new
           raced  == {d \in Heads(ties) : row[d].status \notin {"pending", "claimed", "collected"}}
           new    == NewPlaces(docs, ties)
           places == {p \in new : p.from \notin raced}
           place(k) == Place(ties[k], docs, ties)
           renamed == Renamed(docs, ties) \ raced
           written == renamed \cup {p.from : p \in places}
           item(p) == ItemAt(p, docs, ties)
           head(d) == HeadPlace(d, docs, ties)
<1>2. /\ run.pc = "split" /\ file' = file /\ cycles' = cycles /\ edits' = edits
      /\ recast' = recast \ written
  BY DEF SplitItems
<1>3. PICK slot \in Injection(places, Spare(row)) :
        /\ row' = [r \in Row |->
             IF r \in {slot[p] : p \in places}
               THEN [item(CHOOSE p \in places : slot[p] = r) EXCEPT !.status = "pending"]
             ELSE IF r \in written
               THEN [item(head(r)) EXCEPT !.status = row[r].status]
             ELSE row[r]]
        /\ run' = [pc |-> "collect", homes |-> run.homes,
                   touched |-> renamed \cup {slot[p] : p \in places},
                   divided |-> {slot[p] : p \in places} \cup {p.from : p \in places},
                   open |-> {r \in Row : docs[r].status = "pending"} \cup {slot[p] : p \in places},
                   marked |-> run.marked \cup {slot[p] : p \in {q \in places : q.from \in run.marked}},
                   refused |-> run.refused,
                   pairs |-> {Pair(ties[k].file, ties[k].row,
                                   IF place(k) \in places THEN slot[place(k)] ELSE ties[k].row,
                                   IF place(k) \in new THEN MaxTies + k ELSE k) : k \in DOMAIN ties}
                             \cup pend]
  BY Zenon DEF SplitItems
<1> DEFINE born == {slot[p] : p \in places}
           goal(k) == IF place(k) \in places THEN slot[place(k)] ELSE ties[k].row
           turn(k) == IF place(k) \in new THEN MaxTies + k ELSE k
<1>4. /\ run'.pc = "collect"
      /\ run'.touched = renamed \cup born
      /\ run'.divided = born \cup {p.from : p \in places}
      /\ run'.pairs = {Pair(ties[k].file, ties[k].row, goal(k), turn(k)) : k \in DOMAIN ties} \cup pend
  BY <1>3
<1>5. /\ docs \in [Row -> Items] /\ TiesFit(docs, ties)
      /\ \A r \in Row : /\ row[r].status = "absent" <=> docs[r].status = "absent"
                        /\ row[r] = Deleted \/ r \in recast \/ SameName(row[r], docs[r])
      /\ \A p \in pend : NewFits(p, docs, ties)
      /\ \A p, q \in pend : p = q
  BY <1>2 DEF TiesInv, SplitFits
<1> HIDE DEF docs, ties, pend
<1>6. ASSUME NEW k \in DOMAIN ties
      PROVE  /\ ties[k].row \in Row /\ ties[k].file \in File
             /\ ties[k].row \in Heads(ties)
             /\ row[ties[k].row].status # "absent" /\ docs[ties[k].row].status \notin {"absent", "deleted"}
             /\ Agrees(ties[k].file, docs[ties[k].row])
             /\ file[ties[k].file].kind # "none"
             /\ place(k).from = ties[k].row
             /\ k \in 1 .. MaxTies
  <2>1. TieFits(ties[k], docs)
    BY <1>5 DEF TiesFit
  <2>2. /\ ties[k].row \in Row /\ ties[k].file \in File
        /\ docs[ties[k].row].status \notin {"absent", "deleted"}
        /\ LetThrough(ties[k], docs)
    BY <2>1 DEF TieFits, Present
  <2>3. file[ties[k].file].kind # "none"
    BY <2>1 DEF TieFits
  <2>4. k \in 1 .. MaxTies
    BY <1>5, TiesAssumption DEF TiesFit
  <2>5. place(k).from = ties[k].row
    BY DEF Place
  <2> QED BY <1>5, <2>2, <2>3, <2>4, <2>5, LetThroughAgrees DEF Heads
<1>7. /\ slot \in [places -> Spare(row)]
      /\ \A p, q \in places : slot[p] = slot[q] => p = q
  BY DEF Injection, IsInjective
<1>8. \A d \in Heads(ties) : d \in Row /\ d \notin born
  <2>1. \A d \in Heads(ties) : d \in Row /\ row[d].status # "absent"
    BY <1>6 DEF Heads
  <2>2. born \subseteq Spare(row)
    BY <1>7
  <2> QED BY <2>1, <2>2 DEF Spare
<1>9. ASSUME NEW p \in places
      PROVE  /\ slot[p] \in Row /\ row[slot[p]].status = "absent"
             /\ item(p) \in Items
             /\ row'[slot[p]] = [item(p) EXCEPT !.status = "pending"]
             /\ p.from \in Heads(ties) /\ p.from \notin raced
  <2>1. slot[p] \in Spare(row)
    BY <1>7
  <2>2. (CHOOSE q \in places : slot[q] = slot[p]) = p
    BY <1>7
  <2>3. slot[p] \in Row /\ row[slot[p]].status = "absent" /\ slot[p] \in born
    BY <2>1 DEF Spare
  <2>4. p.from \in Heads(ties) /\ p.from \notin raced
    BY NewPlaceIs
  <2>5. PICK k \in DOMAIN ties : p = place(k)
    BY NewPlaceIs
  <2>6. item(p) \in Items
    BY <1>5, <2>5, PlaceNames DEF TiesInv
  <2>7. row'[slot[p]] = [item(CHOOSE q \in places : slot[q] = slot[p]) EXCEPT !.status = "pending"]
    BY <1>3, <2>3
  <2> HIDE DEF item, places
  <2> QED BY <2>2, <2>3, <2>4, <2>6, <2>7
<1>10. ASSUME NEW d \in written
       PROVE  /\ d \in Heads(ties) /\ d \in Row /\ d \notin raced
              /\ item(head(d)) \in Items
              /\ row'[d] = [item(head(d)) EXCEPT !.status = row[d].status]
  <2>1. d \in Heads(ties) /\ d \notin raced
    <3>1. CASE d \in renamed
      BY <3>1 DEF Renamed
    <3>2. CASE d \in {p.from : p \in places}
      <4>1. PICK p \in places : d = p.from
        BY <3>2
      <4>2. p.from \in Heads(ties) /\ p.from \notin raced
        BY <1>9
      <4> QED BY <4>1, <4>2
    <3> QED BY <3>1, <3>2
  <2>2. item(head(d)) \in Items
    BY <1>5, <1>8, <2>1, HeadItemIs DEF TiesInv
  <2> QED BY <1>3, <1>8, <2>1, <2>2
<1>11. \A r \in Row : r \notin born /\ r \notin written => row'[r] = row[r]
  BY <1>3
<1> HIDE DEF raced, new, places, place, renamed, written, item, head, born, goal, turn
<1>12. \A d \in Heads(ties) : d \notin raced => row[d].status \in {"pending", "claimed", "collected"}
  BY DEF raced
<1>13. row \in [Row -> Items] /\ (\A r \in Row : row[r].status = "deleted" => row[r] = Deleted)
  BY DEF TiesInv, RowsFit
<1>14. ASSUME NEW r \in Row
       PROVE  /\ row'[r] \in Items
              /\ row'[r].status = "deleted" => row'[r] = Deleted
              /\ r \in Present(row) => r \in Present(row')
  <2>1. CASE r \in born
    <3>1. PICK p \in places : r = slot[p]
      BY <2>1 DEF born
    <3>2. "pending" \in Status
      BY DEF Status
    <3> QED BY ZenonT(60), <1>9, <3>1, <3>2, StatusKeepsName DEF Present
  <2>2. CASE r \in written
    <3>1. row[r].status \in {"pending", "claimed", "collected"}
      BY <1>10, <1>12, <2>2
    <3>2. row[r].status \in Status
      BY <3>1 DEF Status
    <3>3. row'[r] \in Items /\ row'[r].status = row[r].status
      <4>1. row'[r] = [item(head(r)) EXCEPT !.status = row[r].status] /\ item(head(r)) \in Items
        BY <1>10, <2>2
      <4> QED BY <3>2, <4>1, StatusKeepsName
    <3> QED BY <3>1, <3>3 DEF Present
  <2>3. CASE r \notin born /\ r \notin written
    <3>1. row'[r] = row[r]
      BY <1>11, <2>3
    <3> QED BY <1>13, <3>1 DEF Present
  <2> QED BY <2>1, <2>2, <2>3
<1>15. row' \in [Row -> Items]
  <2>1. row' = [r \in Row |-> row'[r]]
    BY <1>3
  <2> QED BY <1>14, <2>1
<1>16. RowsFit'
  BY <1>14, <1>15 DEF RowsFit
<1>17. FilesFit'
  <2>1. FilesFit
    BY DEF TiesInv
  <2>2. \A f \in File : file[f].home # None => file[f].home \in Row
    BY <2>1 DEF FilesFit, Present
  <2> QED BY <1>2, <1>14, <2>1, <2>2 DEF FilesFit
<1>18. IdleFits'
  BY <1>2, <1>4 DEF TiesInv, IdleFits, SplitItems
<1>19. \A p \in places : \E k \in DOMAIN ties : p = place(k)
  BY NewPlaceIs DEF places, new, place
<1>20. ASSUME NEW k \in DOMAIN ties
       PROVE  /\ goal(k) \in Row
              /\ row'[goal(k)].status # "absent"
              /\ row'[goal(k)] = Deleted \/ goal(k) \in recast'
                 \/ /\ Agrees(ties[k].file, row'[goal(k)])
                    /\ goal(k) \in run'.divided => file[ties[k].file].employer \in row'[goal(k)].named \cup {None}
  <2> DEFINE f == ties[k].file
             d == ties[k].row
  <2>1. /\ Agrees(f, item(place(k))) /\ item(place(k)) \in Items
        /\ file[f].employer \in item(place(k)).named \cup {None}
    BY <1>5, PlaceNames DEF TiesInv, item, place
  <2>2. ASSUME NEW it \in Items, SameName(it, item(place(k)))
        PROVE  Agrees(f, it) /\ file[f].employer \in it.named \cup {None}
    BY <2>1, <2>2 DEF SameName, Agrees
  <2>3. CASE place(k) \in places
    <3>1. goal(k) = slot[place(k)]
      BY <2>3 DEF goal
    <3>2. "pending" \in Status
      BY DEF Status
    <3>3. row'[goal(k)] = [item(place(k)) EXCEPT !.status = "pending"] /\ goal(k) \in Row
      BY <1>9, <2>3, <3>1
    <3>4. row'[goal(k)] \in Items /\ SameName(row'[goal(k)], item(place(k))) /\ row'[goal(k)].status = "pending"
      BY <2>1, <3>2, <3>3, StatusKeepsName
    <3> QED BY <2>2, <3>3, <3>4
  <2>4. CASE place(k) \notin places /\ d \in raced
    <3>1. goal(k) = d /\ d \in Row /\ d \notin born /\ d \notin written /\ row[d].status # "absent"
      BY <1>6, <1>8, <1>10, <2>4 DEF goal
    <3>2. row'[d] = row[d] /\ (d \in recast => d \in recast')
      BY <1>2, <1>11, <3>1
    <3>3. Agrees(f, docs[d]) /\ (row[d] = Deleted \/ d \in recast \/ SameName(row[d], docs[d]))
      BY <1>5, <1>6, <3>1
    <3>4. d \notin run'.divided
      BY <1>4, <1>9, <2>4, <3>1
    <3>5. row[d] = Deleted \/ d \in recast \/ Agrees(f, row[d])
      BY <3>3 DEF SameName, Agrees
    <3> QED BY <3>1, <3>2, <3>4, <3>5
  <2>5. CASE place(k) \notin places /\ d \notin raced
    <3>1. place(k) \notin new
      BY <1>6, <2>5 DEF places
    <3>2. place(k) = head(d)
      BY <3>1, HeadPlaceIs DEF place, head, new
    <3>3. goal(k) = d /\ d \in Row /\ d \notin born /\ d \in Heads(ties)
      BY <1>6, <1>8, <2>5 DEF goal
    <3>4. row[d].status \in {"pending", "claimed", "collected"}
      BY <1>12, <2>5, <3>3
    <3>5. CASE d \in written
      <4>1. row'[d] = [item(place(k)) EXCEPT !.status = row[d].status]
        BY <1>10, <3>2, <3>5
      <4>2. row[d].status \in Status
        BY <3>4 DEF Status
      <4>3. row'[d] \in Items /\ SameName(row'[d], item(place(k))) /\ row'[d].status = row[d].status
        BY <2>1, <4>1, <4>2, StatusKeepsName
      <4> QED BY <2>2, <3>3, <3>4, <4>3
    <3>6. CASE d \notin written
      <4>1. item(place(k)) = docs[d]
        BY <2>5, <3>2, <3>3, <3>6 DEF renamed, written, Renamed, item, head
      <4>2. row'[d] = row[d] /\ row[d] \in Items /\ (d \in recast => d \in recast')
        BY <1>2, <1>11, <1>13, <3>3, <3>6
      <4>3. row[d] # Deleted
        BY <3>4 DEF Deleted, Item
      <4>4. d \in recast \/ SameName(row[d], item(place(k)))
        BY <1>5, <3>3, <4>1, <4>3
      <4> QED BY <2>2, <3>3, <3>4, <4>2, <4>4
    <3> QED BY <3>5, <3>6
  <2> QED BY <2>3, <2>4, <2>5
<1>21. ASSUME NEW p \in pend
       PROVE  /\ p.row \notin Heads(ties) /\ p.file \in File /\ p.row \in Row
              /\ p.of = p.row /\ p.at = LastTurn
              /\ Agrees(p.file, row'[p.row]) \/ row'[p.row] = Deleted \/ p.row \in recast'
              /\ row'[p.row].status # "absent"
              /\ p.row \notin run'.divided
              /\ file[p.file].kind # "none"
  <2>1. NewFits(p, docs, ties)
    BY <1>5
  <2>2. p.row \in Row /\ p.row \notin Heads(ties) /\ row[p.row].status # "absent"
    BY <1>5, <2>1 DEF NewFits, Heads
  <2>3. p.row \notin born
    BY ZenonT(60), <1>9, <2>2 DEF born
  <2>4. p.row \notin run'.divided
    BY <1>4, <1>9, <2>2, <2>3
  <2>5. row'[p.row] = row[p.row] /\ (p.row \in recast => p.row \in recast')
    BY <1>2, <1>10, <1>11, <2>2, <2>3
  <2>6. Agrees(p.file, row[p.row]) \/ row[p.row] = Deleted \/ p.row \in recast
    BY <1>5, <2>1, <2>2 DEF NewFits, SameName, Agrees
  <2> QED BY <2>1, <2>2, <2>4, <2>5, <2>6 DEF NewFits
<1>22. \A k \in DOMAIN ties : turn(k) \in 1 .. 2 * MaxTies
  BY <1>6, TiesAssumption DEF turn
<1>23. ASSUME NEW p \in run'.pairs
       PROVE  \/ p \in pend
              \/ \E k \in DOMAIN ties : p = Pair(ties[k].file, ties[k].row, goal(k), turn(k))
  BY <1>4
<1>24. ASSUME NEW p \in run'.pairs PROVE PairFits(p)'
  <2>1. CASE p \in pend
    BY <1>2, <1>21, <2>1, TiesAssumption DEF PairFits, Agrees, LastTurn
  <2>2. ASSUME NEW k \in DOMAIN ties, p = Pair(ties[k].file, ties[k].row, goal(k), turn(k))
        PROVE  PairFits(p)'
    <3>1. p.file = ties[k].file /\ p.row = goal(k) /\ p.of = ties[k].row /\ p.at = turn(k)
      BY <2>2 DEF Pair
    <3>2. p.at \in 1 .. LastTurn
      BY <1>22, <3>1, TiesAssumption DEF LastTurn
    <3> QED BY <1>2, <1>6, <1>20, <3>1, <3>2 DEF PairFits, Agrees
  <2> QED BY <1>23, <2>1, <2>2
<1>25. ASSUME NEW p \in run'.pairs, NEW q \in run'.pairs
       PROVE  Together(p, q)' /\ (p.at = q.at => p = q)
  <2>1. CASE p \in pend /\ q \in pend
    BY <1>5, <2>1 DEF Together
  <2>2. ASSUME NEW s \in pend, NEW k \in DOMAIN ties, NEW t,
               t = Pair(ties[k].file, ties[k].row, goal(k), turn(k))
        PROVE  s.of # t.of /\ s.at # t.at
    <3>1. t.of = ties[k].row /\ t.at = turn(k)
      BY <2>2 DEF Pair
    <3> QED BY <1>6, <1>21, <1>22, <3>1, TiesAssumption DEF LastTurn
  <2>3. ASSUME NEW k \in DOMAIN ties, NEW l \in DOMAIN ties,
               p = Pair(ties[k].file, ties[k].row, goal(k), turn(k)),
               q = Pair(ties[l].file, ties[l].row, goal(l), turn(l))
        PROVE  Together(p, q)' /\ (p.at = q.at => p = q)
    <3>1. /\ p.file = ties[k].file /\ p.row = goal(k) /\ p.of = ties[k].row /\ p.at = turn(k)
          /\ q.file = ties[l].file /\ q.row = goal(l) /\ q.of = ties[l].row /\ q.at = turn(l)
      BY <2>3 DEF Pair
    <3>2. ASSUME p.of = q.of, file[p.file].company = file[q.file].company,
                 file[p.file].employer = file[q.file].employer
          PROVE  p.row = q.row
      <4>1. place(k) = place(l)
        BY <3>1, <3>2, SamePlace DEF place, Issuer, PrintedEmployer
      <4> QED BY <3>1, <3>2, <4>1 DEF goal
    <3>3. Together(p, q)'
      BY <1>2, <3>2 DEF Together
    <3>4. ASSUME turn(k) = turn(l) PROVE k = l
      BY <1>6, <3>4, TiesAssumption DEF turn
    <3> QED BY <2>3, <3>1, <3>3, <3>4
  <2>4. CASE p \in pend /\ q \notin pend
    BY <1>23, <2>2, <2>4 DEF Together
  <2>5. CASE p \notin pend /\ q \in pend
    BY <1>23, <2>2, <2>5 DEF Together
  <2>6. CASE p \notin pend /\ q \notin pend
    BY <1>23, <2>3, <2>6
  <2> QED BY <2>1, <2>4, <2>5, <2>6
<1>26. ASSUME NEW r \in run'.touched PROVE \E p \in run'.pairs : p.row = r
  <2>1. ASSUME NEW k \in DOMAIN ties, goal(k) = r PROVE \E p \in run'.pairs : p.row = r
    <3>1. Pair(ties[k].file, ties[k].row, goal(k), turn(k)) \in run'.pairs
      BY <1>4
    <3> QED BY <2>1, <3>1 DEF Pair
  <2>2. CASE r \in born
    <3>1. PICK k \in DOMAIN ties : place(k) \in places /\ r = slot[place(k)]
      BY <1>19, <2>2 DEF born
    <3> QED BY <2>1, <3>1 DEF goal
  <2>3. CASE r \in renamed
    <3>1. PICK k \in DOMAIN ties : ties[k].row = r /\ place(k) = head(r)
      BY <1>5, <2>3, RenamedKeepsFile DEF TiesInv, renamed, place, head
    <3>2. place(k) \notin places
      <4>1. r \in Heads(ties)
        BY <1>10, <2>3 DEF written
      <4>2. head(r) \notin new
        BY <4>1 DEF new, head, NewPlaces
      <4> QED BY <3>1, <4>2 DEF places
    <3> QED BY <2>1, <3>1, <3>2 DEF goal
  <2> QED BY <1>4, <2>2, <2>3
<1>27. PairsFit'
  BY <1>24, <1>25, <1>26 DEF PairsFit
<1> QED
  BY <1>4, <1>16, <1>17, <1>18, <1>27 DEF TiesInv, SplitFits, TargetsFit, FiledFit

-----------------------------------------------------------------------------
(* Collecting, filing, verifying, and the accountant's writes.             *)

\* A write that keeps the name of a row, deletes it, or is the accountant's.
RowStays(r) ==
  /\ row'[r].status = "absent" => row[r].status = "absent"
  /\ row'[r] = Deleted \/ (row[r] # Deleted /\ (r \in recast' \/ SameName(row'[r], row[r])))

FileStays(f) ==
  /\ file'[f].kind = file[f].kind /\ file'[f].company = file[f].company
  /\ file'[f].employer = file[f].employer

LEMMA PairsStay ==
  ASSUME PairsFit, run.pc \in {"collect", "link", "verify"},
         run'.pairs = run.pairs, run'.touched = run.touched, run'.divided = run.divided,
         recast \subseteq recast', \A r \in Row : RowStays(r), \A f \in File : FileStays(f)
  PROVE  PairsFit'
<1>1. /\ \A p \in run.pairs : PairFits(p)
      /\ \A p, q \in run.pairs : Together(p, q) /\ (p.at = q.at => p = q)
      /\ \A r \in run.touched : \E p \in run.pairs : p.row = r
  BY DEF PairsFit
<1>2. ASSUME NEW p \in run.pairs PROVE PairFits(p)'
  <2>1. PairFits(p)
    BY <1>1
  <2>2. p.file \in File /\ p.row \in Row
    BY <2>1 DEF PairFits
  <2>3. RowStays(p.row) /\ FileStays(p.file)
    BY <2>2
  <2>4. CASE row'[p.row] = Deleted
    BY <2>1, <2>3, <2>4 DEF PairFits, RowStays, FileStays, Deleted, Item
  <2>5. CASE row'[p.row] # Deleted
    BY <2>1, <2>3, <2>5 DEF PairFits, RowStays, FileStays, SameName, Agrees
  <2> QED BY <2>4, <2>5
<1>3. ASSUME NEW p \in run.pairs, NEW q \in run.pairs PROVE Together(p, q)'
  <2>1. p.file \in File /\ q.file \in File /\ Together(p, q)
    BY <1>1 DEF PairFits
  <2>2. FileStays(p.file) /\ FileStays(q.file)
    BY <2>1
  <2> QED BY <2>1, <2>2 DEF Together, FileStays
<1> QED BY <1>1, <1>2, <1>3 DEF PairsFit

\* The first pair of a row that has one.
LEMMA PairedIs ==
  ASSUME PairsFit, run.pc \in {"collect", "link", "verify"}, NEW r, NEW s \in run.pairs, s.row = r
  PROVE  \E p \in run.pairs : p.row = r /\ Paired(r) = p.file /\ p.file \in File
<1> DEFINE mine == {p \in run.pairs : p.row = r}
           turns == {p.at : p \in mine}
<1>1. \A p \in run.pairs : PairFits(p)
  BY DEF PairsFit
<1>2. \A p \in run.pairs : p.at \in Nat /\ p.file \in File
  BY <1>1, TiesAssumption DEF PairFits, LastTurn
<1>3. turns \in SUBSET Nat /\ turns # {}
  BY <1>2
<1>4. PICK n \in turns : \A m \in turns : n <= m
  BY <1>3, LeastElement
<1>5. PICK p \in mine : \A q \in mine : p.at <= q.at
  BY <1>4
<1>6. (CHOOSE q \in mine : \A x \in mine : q.at <= x.at) \in mine
  BY <1>5
<1>7. Paired(r) = (CHOOSE q \in mine : \A x \in mine : q.at <= x.at).file
  BY DEF Paired
<1> QED BY <1>2, <1>6, <1>7

\* A row the split named is verified against a file tied to it.
LEMMA CollectInv ==
  ASSUME TiesInv, Collect
  PROVE  TiesInv'
<1> DEFINE offered == run.marked \cap run.open
           earned  == {r \in offered : Earns(r)}
           told    == offered \ (earned \cup run.refused)
<1>1. /\ run.pc = "collect" /\ file' = file /\ recast' = recast /\ cycles' = cycles /\ edits' = edits
      /\ row' = [r \in Row |->
           IF r \in earned /\ row[r].status \in {"pending", "claimed"} THEN [row[r] EXCEPT !.status = "collected"]
           ELSE IF r \in told /\ row[r].status = "pending" THEN [row[r] EXCEPT !.status = "claimed"]
           ELSE row[r]]
      /\ run' = [pc |-> "link", touched |-> run.touched, divided |-> run.divided, pairs |-> run.pairs,
                 targets |-> {[row |-> r, file |-> Target(r)] : r \in earned}]
  BY DEF Collect
<1>2. /\ run'.pc = "link" /\ run'.touched = run.touched /\ run'.divided = run.divided /\ run'.pairs = run.pairs
      /\ run'.targets = {[row |-> r, file |-> Target(r)] : r \in earned}
  BY <1>1
<1>3. ASSUME NEW r \in earned, r \in run.touched
      PROVE  \E p \in run.pairs : p.row = r /\ p.file = Target(r)
  <2>1. PairsFit /\ \A s \in run.touched : \E p \in run.pairs : p.row = s
    BY <1>1 DEF TiesInv, PairsFit
  <2>2. PICK p \in run.pairs : p.row = r /\ Paired(r) = p.file /\ p.file \in File
    BY <1>1, <1>3, <2>1, PairedIs
  <2>3. Paired(r) # None
    BY <2>2, TiesAssumption
  <2>4. Target(r) = Paired(r)
    BY <1>3, <2>3 DEF Target
  <2> QED BY <2>2, <2>4
<1> HIDE DEF earned, told
<1>4. ASSUME NEW r \in Row
      PROVE  /\ row'[r] \in Items
             /\ row'[r] = row[r]
                \/ (row[r].status \in {"pending", "claimed"} /\ row'[r].status \in {"collected", "claimed"})
             /\ SameName(row'[r], row[r])
  <2>1. row[r] \in Items
    BY DEF TiesInv, RowsFit
  <2>2. {"collected", "claimed"} \subseteq Status
    BY DEF Status
  <2>3. CASE r \in earned /\ row[r].status \in {"pending", "claimed"}
    <3>1. row'[r] = [row[r] EXCEPT !.status = "collected"]
      BY <1>1, <2>3
    <3> QED BY <2>1, <2>2, <2>3, <3>1, StatusKeepsName
  <2>4. CASE ~(r \in earned /\ row[r].status \in {"pending", "claimed"}) /\ r \in told /\ row[r].status = "pending"
    <3>1. row'[r] = [row[r] EXCEPT !.status = "claimed"]
      BY <1>1, <2>4
    <3> QED BY <2>1, <2>2, <2>4, <3>1, StatusKeepsName
  <2>5. CASE ~(r \in earned /\ row[r].status \in {"pending", "claimed"}) /\ ~(r \in told /\ row[r].status = "pending")
    <3>1. row'[r] = row[r]
      BY <1>1, <2>5
    <3> QED BY <2>1, <3>1 DEF SameName
  <2> QED BY <2>3, <2>4, <2>5
<1>5. RowsFit'
  <2>1. row' = [r \in Row |-> row'[r]]
    BY <1>1
  <2>2. row' \in [Row -> Items]
    BY <1>4, <2>1
  <2> QED BY <1>4, <2>2 DEF TiesInv, RowsFit
<1>6. FilesFit'
  <2>1. \A r \in Present(row) : r \in Present(row')
    BY <1>4 DEF Present
  <2> QED BY <1>1, <2>1 DEF TiesInv, FilesFit
<1>7. IdleFits'
  BY <1>1, <1>2 DEF TiesInv, IdleFits
<1>8. PairsFit'
  <2>1. ASSUME NEW r \in Row PROVE RowStays(r)
    <3>1. row'[r] = row[r] \/ (row[r].status # "deleted" /\ row'[r].status # "absent")
      BY <1>4
    <3>2. CASE row'[r] = row[r]
      BY <3>2 DEF RowStays, SameName
    <3>3. CASE row[r].status # "deleted" /\ row'[r].status # "absent"
      BY <1>4, <3>3 DEF RowStays, Deleted, Item
    <3> QED BY <3>1, <3>2, <3>3
  <2>2. \A f \in File : FileStays(f)
    BY <1>1 DEF FileStays
  <2> QED BY <1>1, <1>2, <2>1, <2>2, PairsStay DEF TiesInv
<1>9. TargetsFit'
  <2>1. ASSUME NEW t \in run'.targets, t.row \in run'.touched
        PROVE  \E p \in run'.pairs : p.row = t.row /\ p.file = t.file
    <3>1. PICK r \in earned : t = [row |-> r, file |-> Target(r)]
      BY <1>2, <2>1
    <3>2. t.row = r /\ t.file = Target(r)
      BY <3>1
    <3> QED BY <1>2, <1>3, <2>1, <3>2
  <2> QED BY <2>1 DEF TargetsFit
<1> QED
  BY <1>2, <1>5, <1>6, <1>7, <1>8, <1>9 DEF TiesInv, SplitFits, FiledFit

\* A file is filed under a row that is there, and a file that was tied once
\* under the row of its tie.
LEMMA LinkInv ==
  ASSUME TiesInv, Link
  PROVE  TiesInv'
<1> DEFINE mine(f) == {p \in run.pairs : p.file = f /\ \A q \in Gone : p.at < q.at}
           newest(f) == CHOOSE p \in mine(f) : \A q \in mine(f) : q.at <= p.at
<1>1. /\ run.pc = "link" /\ row' = row /\ recast' = recast /\ cycles' = cycles /\ edits' = edits
      /\ file' = [f \in File |->
           IF mine(f) = {} \/ ~Fileable(f) THEN file[f] ELSE [file[f] EXCEPT !.home = newest(f).row]]
      /\ run' = IF Gone = {} THEN [run EXCEPT !.pc = "verify"] ELSE Idle
  BY DEF Link
<1>2. \A p \in run.pairs : PairFits(p)
  BY <1>1 DEF TiesInv, PairsFit
<1>3. \A p \in run.pairs : p.at \in 1 .. LastTurn /\ p.row \in Row /\ p.file \in File
  BY <1>2 DEF PairFits
<1>4. file \in [File -> FileType]
  BY DEF TiesInv, FilesFit
<1>5. ASSUME NEW f \in File, mine(f) # {}
      PROVE  newest(f) \in mine(f)
  <2> DEFINE left == {LastTurn - p.at : p \in mine(f)}
  <2>1. LastTurn \in Nat
    BY TiesAssumption DEF LastTurn
  <2>2. left \in SUBSET Nat /\ left # {}
    BY <1>3, <1>5, <2>1
  <2>3. PICK n \in left : \A m \in left : n <= m
    BY <2>2, LeastElement
  <2>4. PICK p \in mine(f) : n = LastTurn - p.at
    BY <2>3
  <2>5. \A q \in mine(f) : LastTurn - p.at <= LastTurn - q.at
    BY <2>3, <2>4
  <2>6. \A q \in mine(f) : q.at <= p.at
    BY <1>3, <2>1, <2>5
  <2> QED BY <2>6
<1>6. ASSUME NEW f \in File, mine(f) # {}, Fileable(f)
      PROVE  /\ file[f].kind # "none"
             /\ newest(f).row \in Present(row)
             /\ file'[f] = [file[f] EXCEPT !.home = newest(f).row]
  <2>1. PICK p : p = newest(f)
    OBVIOUS
  <2>2. p \in run.pairs /\ p.file = f /\ p \in mine(f)
    BY <1>5, <1>6, <2>1
  <2>3. PairFits(p)
    BY <1>2, <2>2
  <2>4. p.row \in Row /\ row[p.row].status # "absent" /\ file[f].kind # "none"
    BY <2>2, <2>3 DEF PairFits
  <2>5. row[p.row] # Deleted
    <3>1. ASSUME row[p.row] = Deleted PROVE FALSE
      <4>1. p \in Gone
        BY <1>6, <2>2, <3>1 DEF Gone
      <4>2. p.at < p.at
        BY <2>2, <4>1
      <4> QED BY <1>3, <2>2, <4>2, TiesAssumption DEF LastTurn
    <3> QED BY <3>1
  <2>6. p.row \in Present(row)
    BY <2>4, <2>5 DEF TiesInv, RowsFit, Present
  <2> QED BY <1>1, <1>6, <2>1, <2>4, <2>6
<1>7. ASSUME NEW f \in File, mine(f) = {} \/ ~Fileable(f)
      PROVE  file'[f] = file[f]
  BY <1>1, <1>7
<1> HIDE DEF mine, newest
<1>8. ASSUME NEW f \in File
      PROVE  /\ file'[f] \in FileType /\ FileStays(f) /\ file'[f].match = file[f].match
             /\ file'[f].home # None => file'[f].home \in Present(row)
             /\ file'[f].kind = "none" => file'[f] = NoFile
  <2>1. file[f] \in FileType
    BY <1>4
  <2>2. CASE mine(f) = {} \/ ~Fileable(f)
    BY <1>7, <2>2 DEF TiesInv, FilesFit, FileStays
  <2>3. CASE mine(f) # {} /\ Fileable(f)
    <3>1. PICK r \in Row : r = newest(f).row /\ r \in Present(row)
      BY <1>6, <2>3 DEF Present
    <3>2. file[f].kind # "none" /\ file'[f] = [file[f] EXCEPT !.home = r]
      BY <1>6, <2>3, <3>1
    <3> QED BY <2>1, <3>1, <3>2 DEF FileType, FileStays
  <2> QED BY <2>2, <2>3
<1>9. FilesFit'
  <2>1. file' = [f \in File |-> file'[f]]
    BY <1>1
  <2>2. file' \in [File -> FileType]
    BY <1>8, <2>1
  <2> QED BY <1>1, <1>8, <2>2 DEF FilesFit
<1>10. RowsFit'
  BY <1>1 DEF TiesInv, RowsFit
<1>11. CASE Gone # {}
  <2>1. run' = Idle /\ run'.pc = "idle"
    BY <1>1, <1>11 DEF Idle
  <2> QED
    BY <1>1, <1>9, <1>10, <2>1
       DEF TiesInv, IdleFits, SplitFits, PairsFit, TargetsFit, FiledFit
<1>12. CASE Gone = {}
  <2>1. /\ run'.pc = "verify" /\ run'.touched = run.touched /\ run'.divided = run.divided
        /\ run'.pairs = run.pairs /\ run'.targets = run.targets
    <3>1. run' = [run EXCEPT !.pc = "verify"]
      BY <1>1, <1>12
    <3>2. run = [pc |-> "link", touched |-> run.touched, divided |-> run.divided,
                 pairs |-> run.pairs, targets |-> run.targets]
      BY <1>1 DEF TiesInv, IdleFits
    <3> QED BY <3>1, <3>2
  <2>2. \A r \in Row : RowStays(r)
    BY <1>1 DEF RowStays, SameName
  <2>3. PairsFit'
    BY <1>1, <1>8, <2>1, <2>2, PairsStay DEF TiesInv
  <2>4. TargetsFit'
    BY <1>1, <2>1 DEF TiesInv, TargetsFit
  <2>5. ASSUME NEW p \in run.pairs, Single(p.file), file'[p.file].kind # "quarantined"
        PROVE  file'[p.file].home = p.row
    <3>1. p.file \in File /\ FileStays(p.file)
      BY <1>3, <1>8
    <3>2. Fileable(p.file)
      BY <2>5, <3>1 DEF Fileable, FileStays
    <3>3. mine(p.file) = {p}
      BY <1>12, <2>5 DEF mine, Single
    <3>4. newest(p.file) = p
      BY <1>5, <3>1, <3>3
    <3>5. file'[p.file] = [file[p.file] EXCEPT !.home = p.row] /\ file[p.file] \in FileType
      BY <1>4, <1>6, <3>1, <3>2, <3>3, <3>4
    <3> QED BY <3>5 DEF FileType
  <2>6. FiledFit'
    BY <2>1, <2>5 DEF FiledFit, Single, Fileable
  <2> QED
    BY <1>1, <1>9, <1>10, <2>1, <2>3, <2>4, <2>6 DEF TiesInv, IdleFits, SplitFits
<1> QED BY <1>11, <1>12

LEMMA VerifyInv ==
  ASSUME TiesInv, Verify
  PROVE  TiesInv'
<1>1. PICK verdict \in [{t.row : t \in run.targets} -> {"approved", "pending", "collected"}] :
       row' = [r \in Row |->
         IF r \in DOMAIN verdict /\ row[r].status = "collected" THEN [row[r] EXCEPT !.status = verdict[r]] ELSE row[r]]
  BY DEF Verify
<1>2. /\ run' = Idle /\ run'.pc = "idle" /\ file' = file
      /\ recast' = recast /\ cycles' = cycles /\ edits' = edits
  BY DEF Verify, Idle
<1>3. row \in [Row -> Items]
  BY DEF TiesInv, RowsFit
<1>4. ASSUME NEW r \in Row
      PROVE  /\ row'[r] \in Items
             /\ row'[r] = row[r] \/ (row[r].status = "collected" /\ row'[r].status \in {"approved", "pending", "collected"})
  <2>1. CASE r \in DOMAIN verdict /\ row[r].status = "collected"
    <3>1. row'[r] = [row[r] EXCEPT !.status = verdict[r]]
      BY <1>1, <2>1
    <3>2. verdict[r] \in {"approved", "pending", "collected"}
      BY <2>1
    <3>3. verdict[r] \in Status /\ row[r] \in Items
      BY <1>3, <3>2 DEF Status
    <3> QED BY <2>1, <3>1, <3>2, <3>3, StatusKeepsName
  <2>2. CASE ~(r \in DOMAIN verdict /\ row[r].status = "collected")
    <3>1. row'[r] = row[r]
      BY <1>1, <2>2
    <3> QED BY <1>3, <3>1
  <2> QED BY <2>1, <2>2
<1>5. RowsFit'
  <2>1. row' = [r \in Row |-> row'[r]]
    BY <1>1
  <2>2. row' \in [Row -> Items]
    BY <1>4, <2>1
  <2> QED BY <1>4, <2>2 DEF TiesInv, RowsFit
<1>6. FilesFit'
  <2>1. \A r \in Present(row) : r \in Present(row')
    BY <1>4 DEF Present
  <2> QED BY <1>2, <2>1 DEF TiesInv, FilesFit
<1> QED
  BY <1>2, <1>5, <1>6 DEF TiesInv, IdleFits, SplitFits, PairsFit, TargetsFit, FiledFit

\* What the accountant may change: a status, a name, or a row is deleted and
\* its files come loose.
EditsFit ==
  /\ row' \in [Row -> Items]
  /\ \A s \in Row : /\ RowStays(s)
                    /\ row'[s].status = "absent" <=> row[s].status = "absent"
                    /\ row'[s].status = "deleted" => row'[s] = Deleted
                    /\ s \in Present(row) => s \in Present(row') \/ row'[s] = Deleted
  /\ recast \subseteq recast' /\ recast' \subseteq Row
  /\ file' \in [File -> FileType]
  /\ \A f \in File : /\ FileStays(f) /\ file'[f].match = file[f].match /\ file'[f].fits = file[f].fits
                     /\ file'[f].home = file[f].home \/ row'[file[f].home] = Deleted
                     /\ file'[f].home # None => file'[f].home = file[f].home /\ row'[file[f].home] # Deleted
                     /\ file'[f].kind = "none" => file'[f] = NoFile

LEMMA PatchFits ==
  ASSUME TiesInv, NEW r \in Present(row), Patch(r)
  PROVE  EditsFit
<1>1. PICK st \in Patched(row[r].status) \cup {row[r].status}, item \in Names \cup {row[r]} :
       /\ row' = [row EXCEPT ![r] = [item EXCEPT !.status = st]]
       /\ recast' = IF [row[r] EXCEPT !.status = st] = row'[r] THEN recast ELSE recast \cup {r}
       /\ file' = file
  BY Zenon DEF Patch
<1>2. /\ row \in [Row -> Items] /\ r \in Row /\ row[r].status \notin {"absent", "deleted"}
      /\ \A s \in Row : row[s].status = "deleted" => row[s] = Deleted
      /\ recast \subseteq Row
  BY DEF TiesInv, RowsFit, IdleFits, Present
<1>3. st \in Status /\ st \notin {"absent", "deleted"}
  BY <1>1, <1>2, ItemFacts DEF Patched, Status
<1>4. Names \subseteq Items
  BY DEF Names, Item, Items, Status
<1>5. item \in Items /\ row[r] \in Items
  BY <1>1, <1>2, <1>4
<1>6. /\ row'[r] = [item EXCEPT !.status = st]
      /\ \A s \in Row : s # r => row'[s] = row[s]
  BY <1>1, <1>2
<1>7. row'[r] \in Items /\ row'[r].status = st
  BY <1>3, <1>5, <1>6, StatusKeepsName
<1>8. recast' = recast \/ recast' = recast \cup {r}
  BY <1>1
<1>9. r \in recast' \/ SameName(row'[r], row[r])
  <2>1. CASE [row[r] EXCEPT !.status = st] = row'[r]
    BY <1>3, <1>5, <2>1, StatusKeepsName
  <2>2. CASE [row[r] EXCEPT !.status = st] # row'[r]
    BY <1>1, <2>2
  <2> QED BY <2>1, <2>2
<1>10. ASSUME NEW s \in Row
       PROVE  /\ RowStays(s)
              /\ row'[s].status = "absent" <=> row[s].status = "absent"
              /\ row'[s].status = "deleted" => row'[s] = Deleted
              /\ s \in Present(row) => s \in Present(row')
              /\ row'[s] = Deleted => row[s] = Deleted
  <2>1. CASE s # r
    <3>1. row'[s] = row[s]
      BY <1>6, <2>1
    <3> QED BY <1>2, <3>1 DEF RowStays, SameName, Present
  <2>2. CASE s = r
    BY <1>2, <1>3, <1>7, <1>9, <2>2 DEF RowStays, Present, Deleted, Item
  <2> QED BY <2>1, <2>2
<1>11. row' \in [Row -> Items]
  BY <1>1, <1>2, <1>6, <1>7
<1>12. \A f \in File : file[f].home # None => row'[file[f].home] # Deleted
  <2> SUFFICES ASSUME NEW f \in File, file[f].home # None PROVE row'[file[f].home] # Deleted
    OBVIOUS
  <2>1. file[f].home \in Row /\ row[file[f].home].status # "deleted"
    BY DEF TiesInv, FilesFit, Present
  <2> QED BY <1>10, <2>1 DEF Deleted, Item
<1>13. file \in [File -> FileType] /\ \A f \in File : file[f].kind = "none" => file[f] = NoFile
  BY DEF TiesInv, FilesFit
<1> QED BY <1>1, <1>2, <1>8, <1>10, <1>11, <1>12, <1>13 DEF EditsFit, FileStays

LEMMA DeleteFits ==
  ASSUME TiesInv, NEW r \in Present(row), Delete(r)
  PROVE  EditsFit
<1>1. /\ row' = [row EXCEPT ![r] = Deleted]
      /\ file' = [f \in File |-> IF file[f].home = r THEN [file[f] EXCEPT !.home = None] ELSE file[f]]
      /\ recast' = recast
  BY DEF Delete
<1>2. /\ row \in [Row -> Items] /\ r \in Row /\ row[r].status # "absent"
      /\ \A s \in Row : row[s].status = "deleted" => row[s] = Deleted
      /\ recast \subseteq Row
  BY DEF TiesInv, RowsFit, IdleFits, Present
<1>3. Deleted \in Items /\ Deleted.status = "deleted"
  BY DEF Deleted, Item, Items, Status
<1>4. row'[r] = Deleted /\ (\A s \in Row : s # r => row'[s] = row[s]) /\ row' \in [Row -> Items]
  BY <1>1, <1>2, <1>3
<1>5. ASSUME NEW s \in Row
      PROVE  /\ RowStays(s)
             /\ row'[s].status = "absent" <=> row[s].status = "absent"
             /\ row'[s].status = "deleted" => row'[s] = Deleted
             /\ s \in Present(row) => s \in Present(row') \/ row'[s] = Deleted
  <2>1. CASE s # r
    <3>1. row'[s] = row[s]
      BY <1>4, <2>1
    <3> QED BY <1>2, <3>1 DEF RowStays, SameName, Present
  <2>2. CASE s = r
    BY <1>2, <1>3, <1>4, <2>2 DEF RowStays
  <2> QED BY <2>1, <2>2
<1>6. file \in [File -> FileType] /\ r # None
  BY <1>2, TiesAssumption DEF TiesInv, FilesFit
<1>7. ASSUME NEW f \in File
      PROVE  /\ file'[f] \in FileType
             /\ FileStays(f) /\ file'[f].match = file[f].match /\ file'[f].fits = file[f].fits
             /\ file'[f].home = file[f].home \/ row'[file[f].home] = Deleted
             /\ file'[f].home # None => file'[f].home = file[f].home /\ row'[file[f].home] # Deleted
             /\ file'[f].kind = "none" => file'[f] = NoFile
  <2>1. file[f] \in FileType /\ (file[f].kind = "none" => file[f] = NoFile)
    BY <1>6 DEF TiesInv, FilesFit
  <2>2. CASE file[f].home = r
    <3>1. file'[f] = [file[f] EXCEPT !.home = None]
      BY <1>1, <2>2
    <3>2. file[f].kind # "none"
      BY <1>6, <2>1, <2>2 DEF NoFile
    <3> QED BY <1>4, <2>1, <2>2, <3>1, <3>2 DEF FileType, FileStays
  <2>3. CASE file[f].home # r
    <3>1. file'[f] = file[f]
      BY <1>1, <2>3
    <3>2. ASSUME file[f].home # None PROVE row'[file[f].home] # Deleted
      <4>1. file[f].home \in Row /\ row[file[f].home].status # "deleted"
        BY <3>2 DEF TiesInv, FilesFit, Present
      <4> QED BY <1>3, <1>4, <2>3, <4>1
    <3> QED BY <2>1, <3>1, <3>2 DEF FileStays
  <2> QED BY <2>2, <2>3
<1>8. file' \in [File -> FileType]
  <2>1. file' = [f \in File |-> file'[f]]
    BY <1>1
  <2> QED BY <1>7, <2>1
<1> QED BY <1>1, <1>2, <1>4, <1>5, <1>7, <1>8 DEF EditsFit

\* A write of the accountant between two steps of the answer.
LEMMA EditInv ==
  ASSUME TiesInv, Edit
  PROVE  TiesInv'
<1>1. EditsFit
  <2>1. PICK r \in Present(row) : Patch(r) \/ Delete(r)
    BY DEF Edit
  <2> QED BY <2>1, PatchFits, DeleteFits
<1>2. run' = run /\ cycles' = cycles /\ edits' = edits + 1 /\ edits < MaxEdits
  BY DEF Edit
<1>3. /\ \A s \in Row : RowStays(s)
      /\ \A s \in Row : row'[s].status = "absent" <=> row[s].status = "absent"
      /\ recast \subseteq recast'
      /\ \A f \in File : FileStays(f) /\ file'[f].fits = file[f].fits
  BY <1>1 DEF EditsFit
<1>4. RowsFit'
  BY <1>1 DEF EditsFit, RowsFit
<1>5. FilesFit'
  <2>1. ASSUME NEW f \in File, file'[f].home # None
        PROVE  file'[f].home \in Present(row')
    <3>1. file'[f].home = file[f].home /\ row'[file[f].home] # Deleted
      BY <1>1, <2>1 DEF EditsFit
    <3>2. file[f].home \in Row /\ file[f].home \in Present(row)
      BY <2>1, <3>1 DEF TiesInv, FilesFit, Present
    <3> QED BY <1>1, <3>1, <3>2 DEF EditsFit
  <2> QED BY <1>1, <2>1 DEF EditsFit, FilesFit
<1>6. IdleFits'
  BY <1>1, <1>2, TiesAssumption DEF TiesInv, IdleFits, EditsFit
<1>7. SplitFits'
  <2>1. ASSUME run.pc = "split"
        PROVE  /\ run.docs \in [Row -> Items]
               /\ TiesFit(run.docs, run.ties)
               /\ \A s \in Row : /\ row[s].status = "absent" <=> run.docs[s].status = "absent"
                                 /\ row[s] = Deleted \/ s \in recast \/ SameName(row[s], run.docs[s])
               /\ \A p \in run.new : NewFits(p, run.docs, run.ties)
               /\ \A p, q \in run.new : p = q
    BY <2>1 DEF TiesInv, SplitFits
  <2>2. ASSUME NEW docs, NEW p, TieFits(p, docs) PROVE TieFits(p, docs)'
    <3>1. p.file \in File
      BY <2>2 DEF TieFits
    <3> QED BY <1>3, <2>2, <3>1 DEF TieFits, FileStays, LetThrough, Allowed, Differ
  <2>3. ASSUME NEW docs, NEW ties, TiesFit(docs, ties) PROVE TiesFit(docs, ties)'
    BY <2>2, <2>3 DEF TiesFit
  <2>4. ASSUME NEW p, NEW docs, NEW ties, NewFits(p, docs, ties) PROVE NewFits(p, docs, ties)'
    <3>1. p.file \in File
      BY <2>4 DEF NewFits
    <3> QED BY <1>3, <2>4, <3>1 DEF NewFits, FileStays, Agrees
  <2>5. ASSUME run.pc = "split", NEW s \in Row
        PROVE  /\ row'[s].status = "absent" <=> run.docs[s].status = "absent"
               /\ row'[s] = Deleted \/ s \in recast' \/ SameName(row'[s], run.docs[s])
    BY <1>3, <2>1, <2>5 DEF RowStays, SameName
  <2>6. PICK cur : cur = run /\ cur = run'
    BY <1>2
  <2> QED BY <2>1, <2>3, <2>4, <2>5, <2>6 DEF SplitFits
<1>8. PairsFit'
  <2>1. CASE run.pc \in {"collect", "link", "verify"}
    BY <1>2, <1>3, <2>1, PairsStay DEF TiesInv
  <2>2. CASE run.pc \notin {"collect", "link", "verify"}
    BY <1>2, <2>2 DEF PairsFit
  <2> QED BY <2>1, <2>2
<1>9. TargetsFit'
  BY <1>2 DEF TiesInv, TargetsFit
<1>10. FiledFit'
  <2>1. ASSUME run.pc = "verify", NEW p \in run.pairs, Single(p.file),
               file'[p.file].kind # "quarantined", row'[p.row] # Deleted
        PROVE  file'[p.file].home = p.row
    <3>1. p.file \in File /\ p.row \in Row
      BY <2>1 DEF TiesInv, PairsFit, PairFits
    <3>2. Fileable(p.file)
      BY <1>3, <2>1, <3>1 DEF Fileable, FileStays
    <3>3. row[p.row] # Deleted
      BY <1>3, <2>1, <3>1 DEF RowStays
    <3>4. file[p.file].home = p.row
      BY <2>1, <3>2, <3>3 DEF TiesInv, FiledFit
    <3> QED BY <1>1, <2>1, <3>1, <3>4 DEF EditsFit
  <2> QED BY <1>2, <2>1 DEF FiledFit, Single, Fileable
<1> QED
  BY <1>4, <1>5, <1>6, <1>7, <1>8, <1>9, <1>10 DEF TiesInv

-----------------------------------------------------------------------------
(* Theorems.                                                               *)

LEMMA TiesInductive == TiesInv /\ [Next]_vars => TiesInv'
<1> SUFFICES ASSUME TiesInv, [Next]_vars PROVE TiesInv'
  OBVIOUS
<1>1. CASE Answer
  BY <1>1, AnswerInv
<1>2. CASE SplitItems
  BY <1>2, SplitItemsInv
<1>3. CASE Collect
  BY <1>3, CollectInv
<1>4. CASE Link
  BY <1>4, LinkInv
<1>5. CASE Verify
  BY <1>5, VerifyInv
<1>6. CASE Edit
  BY <1>6, EditInv
<1>7. CASE \E f \in File : Arrive(f) \/ Analysed(f)
  BY <1>7, ArriveInv
<1>8. CASE UNCHANGED vars
  <2>1. row' = row /\ file' = file /\ run' = run /\ recast' = recast /\ cycles' = cycles /\ edits' = edits
    BY <1>8 DEF vars
  <2>2. RowsFit' /\ FilesFit' /\ IdleFits'
    BY <2>1 DEF TiesInv, RowsFit, FilesFit, IdleFits
  <2>3. SplitFits'
    BY ZenonT(60), <2>1 DEF TiesInv, SplitFits, TiesFit, TieFits, NewFits, LetThrough, Allowed, Differ, Agrees
  <2>4. PairsFit'
    BY <2>1 DEF TiesInv, PairsFit, PairFits, Together, Agrees
  <2>5. TargetsFit' /\ FiledFit'
    BY <2>1 DEF TiesInv, TargetsFit, FiledFit, Single, Fileable
  <2> QED BY <2>2, <2>3, <2>4, <2>5 DEF TiesInv
<1> QED BY <1>1, <1>2, <1>3, <1>4, <1>5, <1>6, <1>7, <1>8 DEF Next

THEOREM TiesCorrect == Spec => []TiesInv
<1> QED BY InitInv, TiesInductive, PTL DEF Spec

\* Every reachable list, file and run is well formed, and a file, readable or
\* not, is filed under no row but one that exists.
THEOREM TypeCorrect == Spec => []TypeOK
<1>1. TiesInv => TypeOK
  BY DEF TiesInv, RowsFit, FilesFit, FileType, IdleFits, TypeOK
<1> QED BY <1>1, TiesCorrect, PTL

\* No two institutions or employers share a row: what an answer has filed under
\* a row agrees with the company and the employer the row names, unless the
\* accountant renamed the row after the answer was read (splitItemsByCompany).
THEOREM FiledApartHolds == Spec => []FiledApart
<1>1. TiesInv => FiledApart
  <2> SUFFICES ASSUME TiesInv, NEW p \in Settling, file[p.file].home = p.row, p.row \notin recast
               PROVE  /\ file[p.file].company = None \/ row[p.row].company \in {None, file[p.file].company}
                      /\ p.row \in run.divided => file[p.file].employer \in row[p.row].named \cup {None}
    BY DEF FiledApart
  <2>1. run.pc = "verify" /\ p \in run.pairs
    BY DEF Settling
  <2>2. PairFits(p)
    BY <2>1 DEF TiesInv, PairsFit
  <2>3. row[p.row] # Deleted
    <3>1. p.file \in File /\ p.row \in Row
      BY <2>2 DEF PairFits
    <3>2. p.row \in Present(row)
      BY <3>1, TiesAssumption DEF TiesInv, FilesFit
    <3> QED BY <3>2 DEF Present, Deleted, Item
  <2> QED BY <2>2, <2>3 DEF PairFits, Agrees
<1> QED BY <1>1, TiesCorrect, PTL

\* Files of one item with the same company and employer end on one row.
THEOREM SharedByEmployerHolds == Spec => []SharedByEmployer
<1>1. TiesInv => SharedByEmployer
  BY DEF TiesInv, PairsFit, Together, SharedByEmployer, Settling
<1> QED BY <1>1, TiesCorrect, PTL

\* What the split renamed or opened is verified against a file filed under it.
THEOREM OnItsOwnFileHolds == Spec => []OnItsOwnFile
<1>1. TiesInv => OnItsOwnFile
  <2> SUFFICES ASSUME TiesInv, NEW t \in Targets, t.row \in run.touched, TiedOnce(t.file),
                      Fileable(t.file), row[t.row] # Deleted
               PROVE  file[t.file].home = t.row
    BY DEF OnItsOwnFile
  <2>1. run.pc = "verify" /\ t \in run.targets
    BY DEF Targets
  <2>2. PICK p \in run.pairs : p.row = t.row /\ p.file = t.file
    BY <2>1 DEF TiesInv, TargetsFit
  <2>3. Single(p.file)
    BY <2>1, <2>2 DEF Single, TiedOnce, Settling
  <2> QED BY <2>1, <2>2, <2>3 DEF TiesInv, FiledFit
<1> QED BY <1>1, TiesCorrect, PTL
=============================================================================
