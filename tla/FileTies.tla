------------------------------ MODULE FileTies ------------------------------
(***************************************************************************)
(* What a planner answer does with the files the client sent: which ties   *)
(* of a file to an item code lets through, how an item is divided among    *)
(* the companies and employers printed on the files tied to it, which rows *)
(* become collected or claimed, where each file is filed and which file    *)
(* each collected row is verified against.                                 *)
(*                                                                         *)
(* The items are of one type that names an issuing company and is opened   *)
(* per employer (a study fund): the other types are left alone by these    *)
(* rules.  An item's name is what code reads in it: a company, employers,  *)
(* and the employer that ends it.  Paper checks, labels, descriptions and  *)
(* evidence records are left out.  An answer comes at the end of an LLM    *)
(* call, and the accountant may act between its writes.  It goes by the    *)
(* files as they were read before the call, so an analysis that ends       *)
(* meanwhile is taken as ending after it.                                  *)
(***************************************************************************)
EXTENDS Integers, SequencesExt

CONSTANTS
  Company,    \* institutions the table knows
  Employer,   \* employers printed on files
  None,       \* no company, employer, item or file
  MaxFiles,   \* bound: files the client sends
  MaxRows,    \* bound: rows of the list
  MaxTies,    \* bound: ties in one answer
  MaxCycles,  \* bound: answers
  MaxEdits,   \* bound: writes of the accountant
  MaxRaced    \* bound: files there are when the accountant writes under an answer

Row == 1 .. MaxRows
File == 1 .. MaxFiles  \* oldest first

ASSUME TiesAssumption ==
  /\ None \notin Company \cup Employer \cup Row \cup File
  /\ {MaxFiles, MaxRows, MaxTies, MaxCycles, MaxEdits, MaxRaced} \subseteq Nat

VARIABLES
  row,     \* client_documents: status and what the name says
  file,    \* document_files: the stored analysis, and the row it is filed under
  run,     \* the planner cycle that applies an answer
  recast,  \* ghost: rows the accountant has renamed since the answer was read
  cycles, edits

vars == <<row, file, run, recast, cycles, edits>>

Status == {"absent", "deleted", "pending", "claimed", "collected", "approved", "not_required"}
Item(st, c, named, tail) == [status |-> st, company |-> c, named |-> named, tail |-> tail]
Items == [status : Status, company : Company \cup {None}, named : SUBSET Employer, tail : Employer \cup {None}]
NoItem == Item("absent", None, {}, None)
Deleted == Item("deleted", None, {}, None)
NoFile == [kind |-> "none", company |-> None, employer |-> None, fits |-> FALSE, match |-> None, home |-> None]
Unread(k, r) == [NoFile EXCEPT !.kind = k, !.home = r]

Present(rows) == {r \in Row : rows[r].status \notin {"absent", "deleted"}}
Spare(rows) == {r \in Row : rows[r].status = "absent"}
Idle == [pc |-> "idle"]

\* A row named by intake, by an earlier split or by the accountant, and maybe
\* one that names nothing.
Names == {Item("pending", None, {}, None)}
  \cup {Item("pending", c, {}, None) : c \in Company}
  \cup {Item("pending", c, {e}, e) : c \in Company, e \in Employer}

Init ==
  /\ \E item \in Names, other \in {NoItem, Item("pending", None, {}, None)} :
       row = [r \in Row |-> IF r = 1 THEN item ELSE IF r = 2 THEN other ELSE NoItem]
  /\ file = [f \in File |-> NoFile]
  /\ run = Idle
  /\ recast = {}
  /\ cycles = 0
  /\ edits = 0

-----------------------------------------------------------------------------
(* The rules of one tie.                                                   *)

Good(f) == file[f].kind = "good"

\* The company check: companies must not differ, an item that names none needs
\* the document types to agree, a file of an unknown one the client's words.
Differ(f, item) == file[f].company # None /\ item.company \notin {None, file[f].company}

Allowed(f, item, quoted) ==
  IF file[f].company = None THEN quoted
  ELSE IF item.company = None THEN file[f].fits ELSE ~Differ(f, item)

\* The analyzer matched the file to the row, and it is not filed elsewhere.
Matches(f, r) == Good(f) /\ file[f].match = r /\ run.homes[f] \in {None, r}

\* What the analyzer makes of a file: readable, suspicious or illegible, or an
\* original that was cut up.  The gate keeps the match only for an item the
\* company check accepts without the client's words.
Analyses ==
  {a \in [kind : {"good", "quarantined", "split"}, company : Company \cup {None},
          employer : Employer \cup {None}, fits : BOOLEAN, match : Present(row) \cup {None},
          home : {None}] :
     /\ a.kind = "split" => a.company = None /\ ~a.fits
     /\ ~a.fits => a.employer = None
     /\ a.match # None => /\ a.kind = "good" /\ a.fits /\ a.company # None
                          /\ row[a.match].company \in {None, a.company}}

\* A file is stored: analysed, still to be analysed, or never to be (the
\* analysis failed, the format is unsupported, or a portal fetch brought it in
\* and filed it).  Files that no answer will see are left out.
Arrive(f) ==
  /\ run = Idle
  /\ cycles < MaxCycles
  /\ file[f] = NoFile
  /\ \A g \in 1 .. f - 1 : file[g] # NoFile
  /\ \E a \in Analyses \cup {Unread("pending", None)}
               \cup {Unread("unread", h) : h \in Present(row) \cup {None}} :
       file' = [file EXCEPT ![f] = a]
  /\ UNCHANGED <<row, run, recast, cycles, edits>>

\* The analysis ends; the file stays where an answer has filed it meanwhile.
Analysed(f) ==
  /\ run = Idle
  /\ cycles < MaxCycles
  /\ file[f].kind = "pending"
  /\ \E a \in Analyses \cup {Unread("unread", None)} :
       file' = [file EXCEPT ![f] = [a EXCEPT !.home = file[f].home]]
  /\ UNCHANGED <<row, run, recast, cycles, edits>>

-----------------------------------------------------------------------------
(* planCompanySplit: the row every tie ends on.  A place is the item it    *)
(* comes from, its company, and the employer of a row of its own.          *)

Issuer(p) == file[p.file].company
PrintedEmployer(p) == file[p.file].employer

\* Stage 1: an item that names no company takes the first one tied to it.
HeadCompany(d, docs, ties) ==
  LET printed == {k \in DOMAIN ties : ties[k].row = d /\ Issuer(ties[k]) # None}
  IN  IF docs[d].company # None THEN docs[d].company
      ELSE IF printed = {} THEN None ELSE Issuer(ties[Min(printed)])

PlaceCompany(p, docs, ties) ==
  IF docs[p.row].company # None \/ Issuer(p) = None THEN HeadCompany(p.row, docs, ties) ELSE Issuer(p)

\* The item of one company, before its files are divided by employer.
CompanyItem(d, c, docs) ==
  IF docs[d].company = c THEN docs[d] ELSE [docs[d] EXCEPT !.company = c, !.tail = None]

Ends(item, e) == [item EXCEPT !.named = @ \cup {e}, !.tail = IF item.company = None THEN None ELSE e]

\* Stage 2: an item that does not end with an employer takes the first one
\* printed on its files, unless its name carries it anyway.
Lead(d, c, docs, ties) ==
  LET printed == {k \in DOMAIN ties :
        /\ ties[k].row = d /\ PlaceCompany(ties[k], docs, ties) = c
        /\ PrintedEmployer(ties[k]) # None}
  IN  IF printed = {} THEN None ELSE PrintedEmployer(ties[Min(printed)])

EmployerItem(d, c, docs, ties) ==
  LET item == CompanyItem(d, c, docs)
      lead == Lead(d, c, docs, ties)
  IN  IF item.tail # None \/ lead \in item.named \cup {None} THEN item ELSE Ends(item, lead)

\* Mutation: only the first file that prints the item's new employer stays.
PlaceFirstOnly(p, docs, ties) ==
  LET e == PrintedEmployer(p)
      leads == \E k \in DOMAIN ties : ties[k] = p /\ \A i \in 1 .. k - 1 :
                 ties[i].row = p.row => PrintedEmployer(ties[i]) = None
  IN  [from |-> p.row, company |-> PlaceCompany(p, docs, ties),
       employer |-> IF e \in docs[p.row].named \/ (docs[p.row].tail = None /\ leads) THEN None ELSE e]

Place(p, docs, ties) ==
  LET c == PlaceCompany(p, docs, ties)
      e == PrintedEmployer(p)
  IN  [from |-> p.row, company |-> c,
       employer |-> IF e \in EmployerItem(p.row, c, docs, ties).named THEN None ELSE e]

HeadPlace(d, docs, ties) == [from |-> d, company |-> HeadCompany(d, docs, ties), employer |-> None]

ItemAt(place, docs, ties) ==
  LET item == CompanyItem(place.from, place.company, docs)
  IN  IF place.employer = None THEN EmployerItem(place.from, place.company, docs, ties)
      ELSE Ends([item EXCEPT !.named = @ \ {item.tail}], place.employer)

Heads(ties) == {ties[k].row : k \in DOMAIN ties}
NewPlaces(docs, ties) ==
  {Place(ties[k], docs, ties) : k \in DOMAIN ties} \ {HeadPlace(d, docs, ties) : d \in Heads(ties)}
Renamed(docs, ties) == {d \in Heads(ties) : ItemAt(HeadPlace(d, docs, ties), docs, ties) # docs[d]}

-----------------------------------------------------------------------------
(* Applying one answer.                                                    *)

Tie(f, r, quoted) == [file |-> f, row |-> r, quoted |-> quoted]

\* A tie on its way to its row: the item it was made to, and its turn.
Pair(f, of, r, at) == [file |-> f, of |-> of, row |-> r, at |-> at]
Stored == {f \in File : file[f] # NoFile}

\* What a model may tie: any files and rows it was shown.
Ties(rows) ==
  {p \in {Tie(f, r, q) : f \in Stored, r \in Present(rows), q \in BOOLEAN} :
     p.quoted => file[p.file].company = None}

\* Mutation: a pair skips the company check.
LetThroughAll(p, rows) == file[p.file].kind # "split"

\* Pairs with a split original are dropped; then the company check.
LetThrough(p, rows) ==
  file[p.file].kind # "split" /\ Allowed(p.file, rows[p.row], p.quoted)
Refuses(p, rows) ==
  file[p.file].kind # "split" /\ ~Allowed(p.file, rows[p.row], p.quoted)

\* Which of the files named for the row it created the answer may use: the row
\* takes the first good one, of its type, filed nowhere, of no other company.
Fits(f, item) ==
  Good(f) /\ file[f].home = None /\ file[f].fits /\ item.status = "pending" /\ ~Differ(f, item)
NewPair(r, names, rows) ==
  LET fit == {k \in DOMAIN names : Fits(names[k], rows[r])}
  IN  IF fit = {} THEN {} ELSE {Pair(names[Min(fit)], r, r, 2 * MaxTies + 1)}

\* The answer passed the gate; the row it adds is written at once.  Of its
\* ties code keeps those it lets through, in their order; of the others only the
\* refused rows matter later.  A row added as already provided takes no file and
\* is left out, and so is the cycle after a verification, which collects nothing.
Answer ==
  /\ run = Idle
  /\ cycles < MaxCycles
  /\ cycles' = cycles + 1
  /\ \E add \in {None} \cup {r \in Spare(row) : \A s \in Spare(row) : r <= s}, c \in Company \cup {None} :
       /\ add = None => c = None
       /\ row' = IF add = None THEN row ELSE [row EXCEPT ![add] = Item("pending", c, {}, None)]
       /\ \E ties \in BoundedSeq({p \in Ties(row) : LetThrough(p, row')}, MaxTies),
             refused \in SUBSET {p.row : p \in {q \in Ties(row) : Refuses(q, row')}},
             names \in BoundedSeq(IF add = None THEN {} ELSE Stored, MaxTies),
             marked \in SUBSET Present(row) :
          /\ Len(ties) + Cardinality(refused) + Len(names) <= MaxTies
          /\ IsInjective(ties) /\ IsInjective(names)
          /\ LET new == IF add = None THEN {} ELSE NewPair(add, names, row')
             IN  run' = [pc |-> "split", docs |-> row', ties |-> ties, new |-> new,
                         homes |-> [f \in File |-> file[f].home], refused |-> refused,
                         marked |-> marked \cup {p.row : p \in new}]
  /\ recast' = {}
  /\ UNCHANGED <<file, edits>>

\* One transaction: items are renamed and get their siblings, on rows of new
\* ids; an item that left the live statuses meanwhile is skipped and keeps all of
\* its files.  An item that only gets siblings is written the name it was read
\* with, over a new one of the accountant's.  The ties that stay come first.
SplitItems ==
  LET docs   == run.docs
      ties   == run.ties
      raced  == {d \in Heads(ties) : row[d].status \notin {"pending", "claimed", "collected"}}
      new    == NewPlaces(docs, ties)
      places == {p \in new : p.from \notin raced}
      place(k) == Place(ties[k], docs, ties)
      renamed == Renamed(docs, ties) \ raced
      written == renamed \cup {p.from : p \in places}
  IN  /\ run.pc = "split"
      /\ \E slot \in Injection(places, Spare(row)) :
           LET born == {slot[p] : p \in places}
           IN
           /\ row' = [r \in Row |->
                IF r \in born
                  THEN [ItemAt(CHOOSE p \in places : slot[p] = r, docs, ties) EXCEPT !.status = "pending"]
                ELSE IF r \in written
                  THEN [ItemAt(HeadPlace(r, docs, ties), docs, ties) EXCEPT !.status = row[r].status]
                ELSE row[r]]
           /\ run' = [pc |-> "collect", homes |-> run.homes,
                      touched |-> renamed \cup born, divided |-> born \cup {p.from : p \in places},
                      open |-> {r \in Row : docs[r].status = "pending"} \cup born,
                      marked |-> run.marked \cup {slot[p] : p \in {q \in places : q.from \in run.marked}},
                      refused |-> run.refused,
                      pairs |-> {Pair(ties[k].file, ties[k].row,
                                      IF place(k) \in places THEN slot[place(k)] ELSE ties[k].row,
                                      IF place(k) \in new THEN MaxTies + k ELSE k) : k \in DOMAIN ties}
                                \cup run.new]
      /\ recast' = recast \ written
      /\ UNCHANGED <<file, cycles, edits>>

-----------------------------------------------------------------------------
(* Collect or claim, link, verify.                                         *)

\* The file of the first pair of a row.
Paired(r) ==
  LET mine == {p \in run.pairs : p.row = r}
  IN  IF mine = {} THEN None ELSE (CHOOSE p \in mine : \A q \in mine : p.at <= q.at).file

Earns(r) == (\E f \in File : Matches(f, r)) \/ (Paired(r) # None /\ Good(Paired(r)))

\* Mutation: the newest matched file, whatever the split did.
TargetOfSibling(r) ==
  LET matched == {f \in File : Matches(f, r)}
  IN  IF matched = {} THEN Paired(r) ELSE CHOOSE f \in matched : \A g \in matched : g <= f

\* The file a collected row is verified against: of a row the split named, the
\* one tied to it; else the newest that the analyzer matched.
Target(r) ==
  LET matched == {f \in File : Matches(f, r)}
      newest  == CHOOSE f \in matched : \A g \in matched : g <= f
  IN  IF matched = {} \/ (r \in run.touched /\ Paired(r) # None) THEN Paired(r) ELSE newest

\* A row a file earned is collected; one the answer rests on a refused file
\* stays; the rest is taken as the client's word.
Collect ==
  LET offered == run.marked \cap run.open
      earned  == {r \in offered : Earns(r)}
      told    == offered \ (earned \cup run.refused)
  IN  /\ run.pc = "collect"
      /\ row' = [r \in Row |->
           IF r \in earned /\ row[r].status \in {"pending", "claimed"} THEN [row[r] EXCEPT !.status = "collected"]
           ELSE IF r \in told /\ row[r].status = "pending" THEN [row[r] EXCEPT !.status = "claimed"]
           ELSE row[r]]
      /\ run' = [pc |-> "link", touched |-> run.touched, divided |-> run.divided, pairs |-> run.pairs,
                 targets |-> {[row |-> r, file |-> Target(r)] : r \in earned}]
      /\ UNCHANGED <<file, recast, cycles, edits>>

\* Suspicious and illegible files are filed nowhere; files that were not
\* analysed are filed like readable ones.
Fileable(f) == file[f].kind # "quarantined"

\* Mutation: the write does not notice that the row is gone.
GoneUnnoticed == {}

Gone == {p \in run.pairs : row[p.row] = Deleted /\ Fileable(p.file)}

\* Files are filed one after the other, the last tie of a file wins; a row that
\* is gone makes the write fail and the answer ends there, unverified.
Link ==
  LET mine(f) == {p \in run.pairs : p.file = f /\ \A q \in Gone : p.at < q.at}
  IN  /\ run.pc = "link"
      /\ file' = [f \in File |->
           IF mine(f) = {} \/ ~Fileable(f) THEN file[f]
           ELSE [file[f] EXCEPT !.home = (CHOOSE p \in mine(f) : \A q \in mine(f) : q.at <= p.at).row]]
      /\ run' = IF Gone = {} THEN [run EXCEPT !.pc = "verify"] ELSE Idle
      /\ UNCHANGED <<row, recast, cycles, edits>>

\* Each collected row is approved, asked for again, or left as it is.
Verify ==
  /\ run.pc = "verify"
  /\ \E verdict \in [{t.row : t \in run.targets} -> {"approved", "pending", "collected"}] :
       row' = [r \in Row |->
         IF r \in DOMAIN verdict /\ row[r].status = "collected" THEN [row[r] EXCEPT !.status = verdict[r]] ELSE row[r]]
  /\ run' = Idle
  /\ UNCHANGED <<file, recast, cycles, edits>>

\* Statuses the accountant may give a row, its own among them.
Patched(st) ==
  {t \in {"pending", "collected", "not_required", "approved"} :
     \/ t = st
     \/ t = "pending"
     \/ t = "collected" /\ st \in {"pending", "claimed"}
     \/ t = "not_required" /\ st \in {"pending", "claimed"}
     \/ t = "approved" /\ st \in {"claimed", "collected"}}

\* The accountant changes a status, a name or both.
Patch(r) ==
  \E st \in Patched(row[r].status) \cup {row[r].status}, item \in Names \cup {row[r]} :
    /\ row' = [row EXCEPT ![r] = [item EXCEPT !.status = st]]
    /\ recast' = IF [row[r] EXCEPT !.status = st] = row'[r] THEN recast ELSE recast \cup {r}
    /\ UNCHANGED file

\* The files of a row that is deleted come loose.
Delete(r) ==
  /\ row' = [row EXCEPT ![r] = Deleted]
  /\ file' = [f \in File |-> IF file[f].home = r THEN [file[f] EXCEPT !.home = None] ELSE file[f]]
  /\ UNCHANGED recast

Edit ==
  /\ edits < MaxEdits
  /\ run # Idle
  /\ Cardinality(Stored) <= MaxRaced
  /\ edits' = edits + 1
  /\ \E r \in Present(row) : Patch(r) \/ Delete(r)
  /\ UNCHANGED <<run, cycles>>

Next ==
  \/ Answer \/ SplitItems \/ Collect \/ Link \/ Verify \/ Edit
  \/ \E f \in File : Arrive(f) \/ Analysed(f)

Spec == Init /\ [][Next]_vars

-----------------------------------------------------------------------------
(* Properties.                                                             *)

\* Rows, files and runs are well formed, and a file is filed under a row that
\* exists (plan.ts, linkFilesToDocuments): not only readable ones, for the
\* planner may also tie files that were not analysed, on the client's words.
TypeOK ==
  /\ row \in [Row -> Items]
  /\ run.pc \in {"idle", "split", "collect", "link", "verify"}
  /\ file \in [File -> [kind : {"none", "pending", "unread", "good", "quarantined", "split"},
                       company : Company \cup {None}, employer : Employer \cup {None},
                       fits : BOOLEAN, match : Row \cup {None}, home : Row \cup {None}]]
  /\ \A f \in File : file[f].home # None => file[f].home \in Present(row)
  /\ recast \subseteq Row
  /\ cycles \in 0 .. MaxCycles
  /\ edits \in 0 .. MaxEdits

\* What the answer has filed and is about to verify.
Settling == IF run.pc = "verify" THEN run.pairs ELSE {}
Targets  == IF run.pc = "verify" THEN run.targets ELSE {}

\* A file is filed under a row of its own company, and a row the split opened
\* or took siblings from names the employer printed on it (planCompanySplit,
\* companyRefusal): no two institutions or employers share a row.  A row that the
\* accountant renames after the answer was read is left out: the names are not
\* looked at again.
FiledApart ==
  \A p \in Settling :
    LET f == file[p.file]  item == row[p.row]
    IN  f.home = p.row /\ p.row \notin recast =>
          /\ f.company = None \/ item.company \in {None, f.company}
          /\ p.row \in run.divided => f.employer \in item.named \cup {None}

\* Files of one item that print the same company and the same employer end on
\* one row, whatever the order the model named them in (planCompanySplit).
SharedByEmployer ==
  \A p, q \in Settling :
    LET f == file[p.file]  g == file[q.file]
    IN  p.of = q.of /\ f.company = g.company /\ f.employer = g.employer /\ None \notin {f.company, f.employer}
          => p.row = q.row

TiedOnce(f) == \A p, q \in Settling : p.file = f /\ q.file = f => p = q

\* A row the split renamed or opened is verified against a file that is filed
\* under it, not against a sibling's (comments of splitItemsByCompany and of
\* pickVerificationTargets).  A file tied to two items, and a quarantined one,
\* which is filed nowhere, are left out.
OnItsOwnFile ==
  \A t \in Targets :
    t.row \in run.touched /\ TiedOnce(t.file) /\ Fileable(t.file) /\ row[t.row] # Deleted
      => file[t.file].home = t.row
=============================================================================
