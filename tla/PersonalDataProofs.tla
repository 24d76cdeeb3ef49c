-------------------------- MODULE PersonalDataProofs --------------------------
(***************************************************************************)
(* What holds of the personal data of a customer for any number of         *)
(* messages and files and any bounds.                                      *)
(*                                                                         *)
(* The invariant has two halves.  FilesInv is about the files: a claimed   *)
(* file is in processing or was erased, and only the former is loaded.     *)
(* RowsInv is about the rest.  The life of the customer has two phases,    *)
(* before and after the one erasure that goes through (IsErased).  Before  *)
(* it there is one contact, and FoundAll says that what a request found    *)
(* when it began is still all there is, but for the messages of an         *)
(* attendant, since any other transaction that adds to it writes a row of  *)
(* the request.  After it, no run that may still write the phone has the   *)
(* row of an erased message (Begun), but the two that `beside` records.    *)
(***************************************************************************)
EXTENDS PersonalData, TLAPS

-----------------------------------------------------------------------------
(* A file as its record tells of it.                                        *)
FileOK(f) ==
    /\ f.file <=> f.status = "downloaded"
    /\ f.copy => f.file
    /\ f.attempts <= MaxAttempts
    /\ f.status \in {"pending", "failed"} => f.attempts < MaxAttempts
    /\ f.status = "absent" => f.attempts = 0

FilesInv ==
    /\ \A m \in Messages : FileOK(media[m])
    /\ \A m \in Messages : inbox[m].status = "absent" => media[m].status = "absent"
    /\ fetching # None =>
          /\ media[fetching.m].status \in {"processing", "expired"}
          /\ fetching.loading => media[fetching.m].status = "processing"
    /\ erasing # None => \A m \in erasing.inbox : inbox[m].status # "absent"
    /\ \A m \in found.files :
          inbox[m].status # "absent" /\ media[m].status \in {"absent", "expired"}

IsErased == contact["first"] # None /\ contact["first"].who = "anon"

(* The contacts come one after the other; who is blocked is erased.         *)
Customer ==
    /\ contact["first"] # None =>
          /\ contact["first"].who \in {"phone", "anon"}
          /\ contact["first"].blocked <=> contact["first"].who = "anon"
    /\ contact["second"] # None =>
          IsErased /\ contact["second"].who = "phone" /\ ~contact["second"].blocked
    /\ contact["stray"] # None =>
          IsErased /\ contact["stray"].who = "ghost" /\ ~contact["stray"].blocked

Received ==
    \A m \in Messages :
        /\ inbox[m].data => inbox[m].sender = "phone"
        /\ inbox[m].status # "absent" =>
              /\ inbox[m].conv \in {"first", "second"} /\ contact[inbox[m].conv] # None
              /\ inbox[m].sender = "phone" => contact[inbox[m].conv].who = "phone"
        /\ inbox[m].status = "queued" /\ inbox[m].sender = "anon" => IsErased

(* A request goes to the number of the contact that the message was from,   *)
(* or to that of the pseudonym, and there is no reply before it is done.    *)
Requests ==
    \A m \in Messages :
        /\ asked[m].status = "absent" => ~asked[m].data
        /\ asked[m].status # "absent" =>
              /\ inbox[m].status = "done"
              /\ \/ asked[m].recipient = "phone" /\ asked[m].conv = inbox[m].conv
                 \/ /\ asked[m].recipient = "ghost" /\ ~asked[m].data
                    /\ asked[m].conv = "stray" /\ contact["stray"] # None
        /\ asked[m].status \in {"pending", "processing"} => outbox[m].status = "absent"

(* A reply that is not to the phone has no text.                            *)
Replied ==
    \A m \in Messages : outbox[m].status # "absent" =>
        /\ inbox[m].status = "done"
        /\ outbox[m].data => outbox[m].recipient = "phone"
        /\ outbox[m].recipient = "phone" /\ ~IsErased => outbox[m].conv = "first"

(* What each run holds; a call of the AI and a note that writes the         *)
(* conversation are never those of a blocked contact.                       *)
Begun ==
    /\ handling # None => inbox[handling].status = "queued"
    /\ asking # None =>
          /\ asked[asking.m].status = "processing"
          /\ asking.calling => ~contact[asked[asking.m].conv].blocked
    /\ writing # None =>
          /\ inbox[writing.m].status = "done"
          /\ asked[writing.m].status = "absent" /\ outbox[writing.m].status = "absent"
          /\ writing.who = "phone"
          /\ writing.moves => ~contact[inbox[writing.m].conv].blocked
    /\ sending # None => outbox[sending.m].status # "absent"

(* What a request found is still all there is, but for an attendant's       *)
(* message.                                                                 *)
FoundAll ==
    erasing # None /\ ~IsErased =>
        /\ erasing.contact = "first"
        /\ \A m \in Messages :
              /\ inbox[m].status # "absent" /\ inbox[m].sender = "phone" => m \in erasing.inbox
              /\ m \in erasing.asked <=> asked[m].status # "absent"
              /\ m \in erasing.outbox => outbox[m].status # "absent" /\ outbox[m].recipient = "phone"
              /\ outbox[m].status # "absent" /\ outbox[m].recipient = "phone" =>
                    m \in erasing.outbox \/ m \in beside

Erased ==
    /\ \A m \in gone :
          /\ IsErased
          /\ inbox[m].status # "absent" /\ inbox[m].conv = "first"
          /\ ~asked[m].data
          /\ m \notin beside /\ outbox[m].status # "absent" => outbox[m].recipient # "phone"
    /\ \A m \in found.replies :
          /\ IsErased
          /\ outbox[m].status # "absent" /\ outbox[m].conv = "first"
          /\ outbox[m].recipient = "anon"
    /\ late = {}

RowsInv == Customer /\ Received /\ Requests /\ Replied /\ Begun /\ FoundAll /\ Erased

IInv == TypeOK /\ FilesInv /\ RowsInv

-----------------------------------------------------------------------------
(* A run that is still there after another process committed the rows       *)
(* written was to write none of them.                                       *)
LEMMA Survivors ==
    ASSUME NEW written, NEW p, Wrote(written, p)
    PROVE  /\ p # "handling" /\ handling' # None => handling' = handling
           /\ p # "asking" /\ asking' # None =>
                 asking' = asking /\ (asking.calling => <<"asked", asking.m>> \notin written)
           /\ p # "writing" /\ writing' # None =>
                 /\ writing' = writing
                 /\ writing.moves => <<"contact", inbox[writing.m].conv>> \notin written
           /\ p # "sending" /\ sending' # None => sending' = sending
           /\ p # "fetching" /\ fetching' # None =>
                 fetching' = fetching /\ (fetching.loading => <<"media", fetching.m>> \notin written)
           /\ p # "erasing" /\ erasing' # None =>
                 /\ erasing' = erasing
                 /\ <<"contact", erasing.contact>> \notin written
                 /\ \A m \in erasing.inbox : <<"inbox", m>> \notin written
                 /\ \A m \in erasing.asked : <<"asked", m>> \notin written
                 /\ \A m \in erasing.outbox : <<"outbox", m>> \notin written
  <1>1. ASSUME p # "handling", handling' # None  PROVE handling' = handling
    BY <1>1 DEF Wrote, Left
  <1>2. ASSUME p # "asking", asking' # None
        PROVE  asking' = asking /\ (asking.calling => <<"asked", asking.m>> \notin written)
    <2>1. asking' = asking /\ Writes("asking") \cap written = {} /\ asking # None
      BY <1>2 DEF Wrote, Left
    <2>2. asking.calling => Writes("asking") = {<<"asked", asking.m>>}
      BY <2>1 DEF Writes
    <2> QED  BY <2>1, <2>2
  <1>3. ASSUME p # "writing", writing' # None
        PROVE  /\ writing' = writing
               /\ writing.moves => <<"contact", inbox[writing.m].conv>> \notin written
    <2>1. writing' = writing /\ Writes("writing") \cap written = {} /\ writing # None
      BY <1>3 DEF Wrote, Left
    <2>2. writing.moves => Writes("writing") = {<<"contact", inbox[writing.m].conv>>}
      BY <2>1 DEF Writes
    <2> QED  BY <2>1, <2>2
  <1>4. ASSUME p # "sending", sending' # None  PROVE sending' = sending
    BY <1>4 DEF Wrote, Left
  <1>5. ASSUME p # "fetching", fetching' # None
        PROVE  fetching' = fetching /\ (fetching.loading => <<"media", fetching.m>> \notin written)
    <2>1. fetching' = fetching /\ Writes("fetching") \cap written = {} /\ fetching # None
      BY <1>5 DEF Wrote, Left
    <2>2. fetching.loading => Writes("fetching") = {<<"media", fetching.m>>}
      BY <2>1 DEF Writes
    <2> QED  BY <2>1, <2>2
  <1>6. ASSUME p # "erasing", erasing' # None
        PROVE  /\ erasing' = erasing
               /\ <<"contact", erasing.contact>> \notin written
               /\ \A m \in erasing.inbox : <<"inbox", m>> \notin written
               /\ \A m \in erasing.asked : <<"asked", m>> \notin written
               /\ \A m \in erasing.outbox : <<"outbox", m>> \notin written
    <2>1. erasing' = erasing /\ Writes("erasing") \cap written = {} /\ erasing # None
      BY <1>6 DEF Wrote, Left
    <2>2. Writes("erasing") = {<<"contact", erasing.contact>>}
             \cup ({"inbox", "media"} \X erasing.inbox)
             \cup ({"asked"} \X erasing.asked) \cup ({"outbox"} \X erasing.outbox)
      BY <2>1 DEF Writes
    <2> QED  BY <2>1, <2>2
  <1> QED  BY <1>1, <1>2, <1>3, <1>4, <1>5, <1>6

LEMMA RequestSurvives ==
    ASSUME NEW written, NEW p, p # "erasing", Wrote(written, p), erasing' # None
    PROVE  \A m \in erasing.inbox : <<"inbox", m>> \notin written
  BY Survivors

(* The types of the runs, kept by those that go on as they were.            *)
RunTypes ==
    /\ handling \in Messages \cup {None}
    /\ asking = None \/ asking \in [m : Messages, calling : BOOLEAN]
    /\ writing = None \/ writing \in [m : Messages, who : Identities, moves : BOOLEAN]
    /\ sending = None \/ sending \in [m : Messages, calling : BOOLEAN]
    /\ fetching = None \/ fetching \in [m : Messages, loading : BOOLEAN]
    /\ erasing = None \/ erasing \in
        [contact : Contacts, inbox : SUBSET Messages, asked : SUBSET Messages,
         outbox : SUBSET Messages]

LEMMA RunsTyped ==
    ASSUME TypeOK,
           handling' # None /\ handling' # handling => handling' \in Messages,
           asking' # None /\ asking' # asking => asking' \in [m : Messages, calling : BOOLEAN],
           writing' # None /\ writing' # writing =>
               writing' \in [m : Messages, who : Identities, moves : BOOLEAN],
           sending' # None /\ sending' # sending => sending' \in [m : Messages, calling : BOOLEAN],
           fetching' # None /\ fetching' # fetching =>
               fetching' \in [m : Messages, loading : BOOLEAN],
           erasing' # None /\ erasing' # erasing => erasing' \in
               [contact : Contacts, inbox : SUBSET Messages, asked : SUBSET Messages,
                outbox : SUBSET Messages]
    PROVE  RunTypes'
  BY DEF TypeOK, RunTypes

(* Who owns the numbers, before and after the erasure.                      *)
LEMMA PhoneOwner ==
    ASSUME Customer
    PROVE  /\ ~IsErased => Owners("phone") = IF contact["first"] = None THEN {} ELSE {"first"}
           /\ IsErased => Owners("phone") = IF contact["second"] = None THEN {} ELSE {"second"}
           /\ Owners("ghost") = IF contact["stray"] = None THEN {} ELSE {"stray"}
           /\ Owners("anon") = {} <=> ~IsErased
  BY DEF Customer, Owners, Contacts, IsErased

LEMMA InitIInv == Init => IInv
  <1> SUFFICES ASSUME Init  PROVE IInv
    OBVIOUS
  <1>1. TypeOK
    BY BoundsAssumption DEF Init, TypeOK, Inbox, Asked, Outbox, Media, Identities
  <1>2. FilesInv
    BY BoundsAssumption DEF Init, FilesInv, FileOK
  <1>3. RowsInv
    BY DEF Init, RowsInv, Customer, Received, Requests, Replied, Begun, FoundAll, Erased, Contacts
  <1> QED  BY <1>1, <1>2, <1>3 DEF IInv

-----------------------------------------------------------------------------
(* The steps of the downloads and the retention of files write one file.    *)
LEMMA FileRows ==
    ASSUME NEW f \in Media, FileOK(f)
    PROVE  /\ Due(f) => /\ Claimed(f) \in Media /\ FileOK(Claimed(f))
                        /\ Claimed(f).status = "processing"
           /\ ~f.file => /\ Failed(f) \in Media /\ FileOK(Failed(f))
                         /\ Failed(f).status \in {"dead", "failed"}
           /\ Purged(f) \in Media /\ FileOK(Purged(f)) /\ Purged(f).status = "expired"
  <1>1. f.attempts \in Nat /\ MaxAttempts \in Nat
    BY BoundsAssumption DEF Media
  <1>2. Purged(f) \in Media /\ FileOK(Purged(f)) /\ Purged(f).status = "expired"
    BY <1>1 DEF Purged, Media, FileOK
  <1>3. ~f.file => /\ Failed(f) \in Media /\ FileOK(Failed(f))
                   /\ Failed(f).status \in {"dead", "failed"}
    <2> SUFFICES ASSUME ~f.file
                 PROVE  /\ Failed(f) \in Media /\ FileOK(Failed(f))
                        /\ Failed(f).status \in {"dead", "failed"}
      OBVIOUS
    <2>1. /\ Failed(f) \in Media
          /\ Failed(f).attempts = f.attempts /\ Failed(f).file = f.file /\ Failed(f).copy = f.copy
          /\ Failed(f).status = IF f.attempts >= MaxAttempts THEN "dead" ELSE "failed"
      BY DEF Failed, Media
    <2>2. FileOK(Failed(f))
      BY <1>1, <2>1 DEF FileOK
    <2> QED  BY <2>1, <2>2
  <1>4. Due(f) => /\ Claimed(f) \in Media /\ FileOK(Claimed(f))
                  /\ Claimed(f).status = "processing"
    <2> SUFFICES ASSUME Due(f)
                 PROVE  /\ Claimed(f) \in Media /\ FileOK(Claimed(f))
                        /\ Claimed(f).status = "processing"
      OBVIOUS
    <2>1. /\ Claimed(f) \in Media
          /\ Claimed(f).attempts = f.attempts + 1 /\ Claimed(f).status = "processing"
          /\ Claimed(f).file = f.file /\ Claimed(f).copy = f.copy
      <3>1. f.attempts + 1 \in Nat
        BY <1>1
      <3>2. Claimed(f) = [[f EXCEPT !.status = "processing"] EXCEPT !.attempts = f.attempts + 1]
        BY DEF Claimed
      <3>3. [f EXCEPT !.status = "processing"] \in Media
        BY DEF Media
      <3>4. Claimed(f) \in Media
        BY <3>1, <3>2, <3>3 DEF Media
      <3> QED  BY <1>1, <3>4 DEF Claimed, Media
    <2>2. f.attempts < MaxAttempts /\ f.status # "downloaded"
      BY DEF Due, FileOK
    <2>3. FileOK(Claimed(f))
      BY <1>1, <2>1, <2>2 DEF FileOK
    <2> QED  BY <2>1, <2>3
  <1> QED  BY <1>2, <1>3, <1>4

LEMMA FileWritten ==
    ASSUME IInv, NEW m \in Messages, NEW f \in Media, FileOK(f),
           NEW p, p \notin Processes \ {"fetching"}, WriteMedia(m, f, p),
           inbox[m].status # "absent", m \notin found.files, retries' \in 0..MaxRetries,
           fetching' # None =>
              /\ fetching' \in [m : Messages, loading : BOOLEAN]
              /\ media'[fetching'.m].status \in {"processing", "expired"}
              /\ fetching'.loading => media'[fetching'.m].status = "processing"
    PROVE  IInv'
  <1>1. /\ media' = [media EXCEPT ![m] = f] /\ media \in [Messages -> Media]
        /\ UNCHANGED <<contact, inbox, asked, outbox, gone, found, beside, late>>
        /\ Wrote({<<"media", m>>}, p)
    BY DEF WriteMedia, IInv, TypeOK, history
  <1>2. /\ media' \in [Messages -> Media] /\ media'[m] = f
        /\ \A n \in Messages \ {m} : media'[n] = media[n]
    BY <1>1
  <1>3. /\ handling' # None => handling' = handling
        /\ asking' # None => asking' = asking
        /\ writing' # None => writing' = writing
        /\ sending' # None => sending' = sending
        /\ erasing' # None => erasing' = erasing
    BY <1>1, Survivors DEF Processes
  <1>4. \A n \in Messages : FileOK(media'[n])
    BY <1>2 DEF IInv, FilesInv
  <1>5. TypeOK'
    <2>1. \A n \in Messages : media'[n].attempts <= MaxAttempts
      BY <1>4 DEF FileOK
    <2>2. RunTypes'
      BY <1>3, RunsTyped DEF IInv
    <2> QED  BY <1>1, <1>2, <2>1, <2>2 DEF IInv, TypeOK, RunTypes
  <1>6. FilesInv'
    <2>1. \A n \in Messages : FileOK(media[n])'
      BY <1>4 DEF FileOK
    <2>2. \A n \in found.files : n \in Messages
      BY DEF IInv, TypeOK
    <2> QED  BY <1>1, <1>2, <1>3, <2>1, <2>2 DEF IInv, FilesInv
  <1>7. RowsInv'
    BY <1>1, <1>3 DEF IInv, RowsInv, Customer, Received, Requests, Replied, Begun, FoundAll,
                      Erased, IsErased
  <1> QED  BY <1>5, <1>6, <1>7 DEF IInv

LEMMA FileStep ==
    ASSUME IInv, NEW m \in Messages,
           ClaimFile(m) \/ Downloaded(m) \/ NotDownloaded(m) \/ RecoverFile(m)
               \/ RetryFile(m) \/ PurgeExpired(m)
    PROVE  IInv'
  <1>1. media[m] \in Media /\ FileOK(media[m]) /\ fetching \in {None} \cup [m : Messages, loading : BOOLEAN]
    BY DEF IInv, TypeOK, FilesInv
  <1>2. /\ media[m].status # "absent" => inbox[m].status # "absent"
        /\ media[m].status \notin {"absent", "expired"} => m \notin found.files
    BY DEF IInv, FilesInv
  <1>3. retries \in 0..MaxRetries
    BY DEF IInv, TypeOK
  <1>4. ASSUME NEW f \in Media, NEW p, WriteMedia(m, f, p),
               media[m].status \notin {"absent", "expired"}
        PROVE  /\ media'[m] = f /\ \A n \in Messages \ {m} : media'[n] = media[n]
               /\ m \notin found.files /\ inbox[m].status # "absent"
    BY <1>2, <1>4 DEF WriteMedia, IInv, TypeOK
  <1>5. ASSUME ClaimFile(m)  PROVE IInv'
    <2>1. Claimed(media[m]) \in Media /\ FileOK(Claimed(media[m])) /\ Claimed(media[m]).status = "processing"
      BY <1>1, <1>5, FileRows DEF ClaimFile
    <2>2. /\ media[m].status \notin {"absent", "expired"} /\ retries' = retries
          /\ WriteMedia(m, Claimed(media[m]), "fetching") /\ fetching' = [m |-> m, loading |-> FALSE]
      BY <1>5 DEF ClaimFile, Due
    <2>3. "fetching" \notin Processes \ {"fetching"}
      OBVIOUS
    <2> QED  BY <1>3, <1>4, <2>1, <2>2, <2>3, FileWritten
  (* The commit of a download, whose file is still in processing.           *)
  <1>6. ASSUME NEW f \in Media, FileOK(f), EndFetch(m, f)  PROVE IInv'
    <2>1. media[m].status = "processing"
      BY <1>6 DEF EndFetch, Fetching, IInv, FilesInv
    <2>2. WriteMedia(m, f, "fetching") /\ fetching' = None /\ retries' = retries
      BY <1>6 DEF EndFetch
    <2>3. "fetching" \notin Processes \ {"fetching"}
      OBVIOUS
    <2> QED  BY <1>3, <1>4, <1>6, <2>1, <2>2, <2>3, FileWritten
  <1>7. ASSUME Downloaded(m)  PROVE IInv'
    <2>1. PICK copy \in BOOLEAN :
            EndFetch(m, [media[m] EXCEPT !.status = "downloaded", !.file = TRUE, !.copy = copy])
      BY <1>7 DEF Downloaded
    <2> DEFINE f == [media[m] EXCEPT !.status = "downloaded", !.file = TRUE, !.copy = copy]
    <2>2. /\ f \in Media /\ f.status = "downloaded" /\ f.file /\ f.attempts = media[m].attempts
      BY <1>1 DEF Media
    <2>3. FileOK(f)
      <3> HIDE DEF f
      <3> QED  BY <1>1, <2>2 DEF FileOK
    <2> HIDE DEF f
    <2> QED  BY <1>6, <2>1, <2>2, <2>3 DEF f
  <1>8. ASSUME NotDownloaded(m)  PROVE IInv'
    <2>1. media[m].status = "processing" /\ ~media[m].file /\ ~media[m].copy
      BY <1>1, <1>8 DEF NotDownloaded, EndFetch, Fetching, IInv, FilesInv, FileOK
    <2>2. ASSUME NEW s \in {"rejected", "dead"}, EndFetch(m, [media[m] EXCEPT !.status = s])
          PROVE  IInv'
      <3> DEFINE f == [media[m] EXCEPT !.status = s]
      <3>1. /\ f \in Media /\ f.status = s /\ f.file = media[m].file /\ f.copy = media[m].copy
            /\ f.attempts = media[m].attempts
        BY <1>1 DEF Media
      <3>2. FileOK(f)
        <4> HIDE DEF f
        <4> QED  BY <1>1, <2>1, <3>1 DEF FileOK
      <3> QED  BY <1>6, <2>2, <3>1, <3>2
    <2>3. ASSUME EndFetch(m, Failed(media[m]))  PROVE IInv'
      BY <1>1, <1>6, <2>1, <2>3, FileRows
    <2> QED  BY <1>8, <2>2, <2>3 DEF NotDownloaded
  (* The three that touch no file a run has claimed.                        *)
  <1>9. ASSUME NEW f \in Media, FileOK(f), WriteMedia(m, f, None), retries' \in 0..MaxRetries,
               media[m].status \notin {"absent", "expired"}, ~Fetching(m)
        PROVE  IInv'
    <2>1. None \notin Processes
      BY NoneAssumption
    <2>2. fetching' # None => fetching' = fetching
      BY <1>9, <2>1, Survivors DEF WriteMedia, Processes
    <2>3. fetching' # None => media'[fetching'.m] = media[fetching.m]
      BY <1>1, <1>4, <1>9, <2>2 DEF Fetching
    <2>4. fetching' # None =>
            /\ fetching' \in [m : Messages, loading : BOOLEAN]
            /\ media'[fetching'.m].status \in {"processing", "expired"}
            /\ fetching'.loading => media'[fetching'.m].status = "processing"
      BY <1>1, <2>2, <2>3 DEF IInv, FilesInv
    <2> QED  BY <1>4, <1>9, <2>1, <2>4, FileWritten
  <1>10. ASSUME RecoverFile(m)  PROVE IInv'
    <2>1. ~media[m].file
      BY <1>1, <1>10 DEF RecoverFile, FileOK
    <2>2. Failed(media[m]) \in Media /\ FileOK(Failed(media[m]))
      BY <1>1, <2>1, FileRows
    <2>3. /\ WriteMedia(m, Failed(media[m]), None) /\ retries' = retries
          /\ media[m].status = "processing" /\ ~Fetching(m)
      BY <1>10 DEF RecoverFile
    <2>4. /\ media[m].status \notin {"absent", "expired"}
          /\ retries' \in 0..MaxRetries
      BY <1>3, <2>3
    <2> QED  BY <1>9, <2>2, <2>3, <2>4
  <1>11. ASSUME RetryFile(m)  PROVE IInv'
    <2> DEFINE f == [media[m] EXCEPT !.status = "pending", !.attempts = 0]
    <2>1. /\ f \in Media /\ f.status = "pending" /\ f.attempts = 0
          /\ f.file = media[m].file /\ f.copy = media[m].copy
      BY <1>1 DEF Media
    <2>2. media[m].status \in {"failed", "dead"} /\ WriteMedia(m, f, None)
      BY <1>11 DEF RetryFile
    <2>3. retries' \in 0..MaxRetries
      BY <1>3, <1>11, BoundsAssumption DEF RetryFile
    <2>4. ~Fetching(m)
      BY <2>2 DEF Fetching, IInv, FilesInv
    <2> HIDE DEF f
    <2>5. FileOK(f)
      BY <1>1, <2>1, <2>2, BoundsAssumption DEF FileOK
    <2>6. media[m].status \notin {"absent", "expired"}
      BY <2>2
    <2> QED  BY <1>9, <2>1, <2>2, <2>3, <2>4, <2>5, <2>6
  <1>12. ASSUME PurgeExpired(m)  PROVE IInv'
    <2>1. /\ WriteMedia(m, Purged(media[m]), None) /\ retries' = retries
          /\ media[m].status = "downloaded"
      BY <1>12 DEF PurgeExpired
    <2>2. Purged(media[m]) \in Media /\ FileOK(Purged(media[m])) /\ Purged(media[m]).status = "expired"
      BY <1>1, FileRows
    <2>3. ~Fetching(m)
      BY <2>1 DEF Fetching, IInv, FilesInv
    <2>4. /\ media[m].status \notin {"absent", "expired"}
          /\ retries' \in 0..MaxRetries
      BY <1>3, <2>1
    <2> QED  BY <1>9, <2>1, <2>2, <2>3, <2>4
  <1> QED  BY <1>5, <1>7, <1>8, <1>10, <1>11, <1>12

-----------------------------------------------------------------------------
(* The steps in which no message, request or reply comes or loses its       *)
(* number: a transaction begins or is lost, a row moves to another status.  *)
SameRows ==
    /\ UNCHANGED <<contact, inbox, media>>
    /\ outbox' \in [Messages -> Outbox] /\ asked' \in [Messages -> Asked]
    /\ \A n \in Messages :
          /\ outbox'[n].status = "absent" <=> outbox[n].status = "absent"
          /\ outbox'[n].recipient = outbox[n].recipient
          /\ outbox'[n].data = outbox[n].data /\ outbox'[n].conv = outbox[n].conv
          /\ asked'[n].status = "absent" <=> asked[n].status = "absent"
          /\ asked'[n].status \in {"pending", "processing"} =>
                asked[n].status \in {"pending", "processing"}
          /\ asked'[n].recipient = asked[n].recipient
          /\ asked'[n].data => asked[n].data
          /\ asked'[n].conv = asked[n].conv

LEMMA FoundKept ==
    ASSUME FoundAll, TypeOK, SameRows, beside' = beside,
           erasing' # None => erasing' = erasing
    PROVE  FoundAll'
  BY DEF FoundAll, SameRows, IsErased

LEMMA BegunKept ==
    ASSUME IInv, SameRows,
           handling' # None => handling' = handling \/ inbox[handling'].status = "queued",
           asking' # None =>
              \/ asking' = asking /\ asked'[asking.m].status = asked[asking.m].status
              \/ /\ asking'.m \in Messages /\ asked'[asking'.m].status = "processing"
                 /\ asking'.calling => ~contact[asked[asking'.m].conv].blocked,
           writing' # None => writing' = writing,
           sending' # None =>
              sending' = sending \/ (sending'.m \in Messages /\ outbox[sending'.m].status # "absent")
    PROVE  Begun'
  <1>1. handling' # None => inbox'[handling'].status = "queued"
    BY DEF IInv, RowsInv, Begun, SameRows
  <1>2. asking' # None =>
          /\ asked'[asking'.m].status = "processing"
          /\ asking'.calling => ~contact'[asked'[asking'.m].conv].blocked
    <2>1. asking # None => asking.m \in Messages
      BY DEF IInv, TypeOK
    <2> QED  BY <2>1 DEF IInv, RowsInv, Begun, SameRows
  <1>3. writing' # None =>
          /\ inbox'[writing'.m].status = "done"
          /\ asked'[writing'.m].status = "absent" /\ outbox'[writing'.m].status = "absent"
          /\ writing'.who = "phone"
          /\ writing'.moves => ~contact'[inbox'[writing'.m].conv].blocked
    <2>1. writing # None => writing.m \in Messages
      BY DEF IInv, TypeOK
    <2> QED  BY <2>1 DEF IInv, RowsInv, Begun, SameRows
  <1>4. sending' # None => outbox'[sending'.m].status # "absent"
    <2>1. sending # None => sending.m \in Messages
      BY DEF IInv, TypeOK
    <2> QED  BY <2>1 DEF IInv, RowsInv, Begun, SameRows
  <1> QED  BY <1>1, <1>2, <1>3, <1>4 DEF Begun

LEMMA RowsMove ==
    ASSUME IInv, SameRows, RunTypes', Begun', FoundAll',
           UNCHANGED <<retries, gone, found, beside>>, late' = {},
           fetching' # None =>
              /\ media[fetching'.m].status \in {"processing", "expired"}
              /\ fetching'.loading => media[fetching'.m].status = "processing",
           erasing' # None => \A m \in erasing'.inbox : inbox[m].status # "absent"
    PROVE  IInv'
  <1>1. TypeOK'
    BY DEF IInv, TypeOK, RunTypes, SameRows
  <1>2. FilesInv'
    BY DEF IInv, FilesInv, FileOK, SameRows
  <1>3. Customer' /\ Received'
    BY DEF IInv, RowsInv, Customer, Received, IsErased, SameRows
  <1>4. Requests'
    BY DEF IInv, RowsInv, Requests, SameRows
  <1>5. Replied'
    BY DEF IInv, RowsInv, Replied, IsErased, SameRows
  <1>6. Erased'
    <2>1. gone \subseteq Messages /\ found.replies \subseteq Messages
      BY DEF IInv, TypeOK
    <2> QED  BY <2>1 DEF IInv, RowsInv, Erased, IsErased, SameRows
  <1> QED  BY <1>1, <1>2, <1>3, <1>4, <1>5, <1>6 DEF IInv, RowsInv

(* A run that begins with a read, or is lost.                               *)
LEMMA RunStep ==
    ASSUME IInv, RunTypes', Begun', UNCHANGED <<rows, retries, gone, found, beside>>, late' = {},
           fetching' # None =>
              /\ media[fetching'.m].status \in {"processing", "expired"}
              /\ fetching'.loading => media[fetching'.m].status = "processing",
           erasing' # None => erasing' = erasing
    PROVE  IInv'
  <1>1. SameRows
    BY DEF SameRows, rows, IInv, TypeOK
  <1>2. FoundAll'
    BY <1>1, FoundKept DEF IInv, RowsInv
  <1> QED  BY <1>1, <1>2, RowsMove DEF IInv, FilesInv

LEMMA BeginRunStep ==
    ASSUME IInv, NEW m \in Messages, BeginHandling(m) \/ BeginCall(m) \/ BeginFetch(m)
    PROVE  IInv'
  <1>1. SameRows
    BY DEF SameRows, rows, IInv, TypeOK, BeginHandling, BeginCall, BeginFetch
  <1>2. CASE BeginHandling(m)
    <2>1. Begun'
      BY <1>1, <1>2, BegunKept DEF BeginHandling, rows
    <2>2. RunTypes'
      BY <1>2, RunsTyped DEF BeginHandling, IInv
    <2> QED  BY <1>2, <2>1, <2>2, RunStep DEF BeginHandling, history, IInv, FilesInv, RowsInv, Erased
  <1>3. CASE BeginCall(m)
    <2>1. Begun'
      BY <1>1, <1>3, BegunKept DEF BeginCall, Sending, talk, rows, IInv, RowsInv, Begun
    <2>2. RunTypes'
      BY <1>3, RunsTyped DEF BeginCall, talk, IInv
    (* The reply that an erasure found is to the blocked contact.           *)
    <2>3. m \notin found.replies
      BY <1>3, NoneAssumption DEF BeginCall, Stopped, IInv, RowsInv, Erased, Customer, IsErased, Contacts
    <2>4. late' = {}
      BY <1>3, <2>3 DEF BeginCall, IInv, RowsInv, Erased
    <2> QED  BY <1>3, <2>1, <2>2, <2>4, RunStep DEF BeginCall, IInv, FilesInv
  <1>4. CASE BeginFetch(m)
    <2>1. Begun'
      BY <1>1, <1>4, BegunKept DEF BeginFetch, talk, rows
    <2>2. RunTypes'
      BY <1>4, RunsTyped DEF BeginFetch, talk, IInv
    <2>3. fetching' # None => fetching'.m = m /\ media[m].status = "processing"
      BY <1>4 DEF BeginFetch, Fetching, IInv, FilesInv, Final
    <2> QED  BY <1>4, <2>1, <2>2, <2>3, RunStep DEF BeginFetch, history, IInv, RowsInv, Erased
  <1> QED  BY <1>2, <1>3, <1>4

(* Who writes to a customer that is not blocked writes to the phone.        *)
LEMMA BeginNoteStep == ASSUME IInv, NEW m \in Messages, BeginNote(m)  PROVE IInv'
  <1>1. /\ inbox[m].status = "done" /\ outbox[m].status = "absent" /\ asked[m].status = "absent"
        /\ ~contact[inbox[m].conv].blocked /\ writing'.m = m
        /\ writing'.who = contact[inbox[m].conv].who
        /\ UNCHANGED <<contact, inbox, asked, outbox, media, handling, asking, sending, fetching,
                       erasing, retries, gone, found, beside, late>>
    BY DEF BeginNote, rows, history
  <1>2. contact[inbox[m].conv].who = "phone"
    BY <1>1 DEF IInv, RowsInv, Received, Customer
  <1>3. writing' \in [m : Messages, who : Identities, moves : BOOLEAN]
    BY <1>2 DEF BeginNote, Identities
  <1>4. RunTypes'
    BY <1>1, <1>3, RunsTyped DEF IInv
  <1>5. Begun'
    BY <1>1, <1>2 DEF IInv, RowsInv, Begun
  <1> QED  BY <1>1, <1>4, <1>5, RunStep DEF rows, IInv, FilesInv, RowsInv, Erased

LEMMA BeginErasureStep == ASSUME IInv, NEW c \in Contacts, BeginErasure(c)  PROVE IInv'
  <1>1. /\ UNCHANGED <<contact, inbox, asked, outbox, media, handling, asking, writing, sending,
                       fetching, retries, gone, found, beside, late>>
        /\ erasing' = [contact |-> c,
                       inbox |-> {m \in Present : inbox[m].sender = "phone"},
                       asked |-> {m \in Messages : asked[m].status # "absent"
                                                   /\ asked[m].conv = c},
                       outbox |-> {m \in Messages : outbox[m].status # "absent"
                                                    /\ outbox[m].recipient = "phone"}]
        /\ c \in Owners("phone")
    BY DEF BeginErasure, rows, talk, history
  <1>2. SameRows
    BY <1>1 DEF SameRows, IInv, TypeOK
  <1>3. RunTypes'
    BY <1>1, RunsTyped DEF IInv, Present
  <1>4. Begun'
    BY <1>1, <1>2, BegunKept
  <1>5. FoundAll'
    <2> SUFFICES ASSUME ~IsErased  PROVE FoundAll'
      BY <1>1 DEF FoundAll, IsErased
    <2>1. c = "first" /\ contact["second"] = None /\ contact["stray"] = None
      BY <1>1, PhoneOwner DEF IInv, RowsInv, Customer
    <2>2. \A m \in Messages : asked[m].status # "absent" => asked[m].conv = "first"
      BY <2>1 DEF IInv, RowsInv, Requests, Received
    <2> QED  BY <1>1, <2>1, <2>2 DEF FoundAll, Present, IsErased
  <1> QED  BY <1>1, <1>2, <1>3, <1>4, <1>5, RowsMove DEF IInv, FilesInv, RowsInv, Erased, Present

LEMMA LostStep ==
    ASSUME IInv, RefuseErasure \/ \E p \in Processes : Crash(p)
    PROVE  IInv'
  <1>1. /\ UNCHANGED <<rows, retries, gone, found, beside, late>>
        /\ handling' # None => handling' = handling
        /\ asking' # None => asking' = asking
        /\ writing' # None => writing' = writing
        /\ sending' # None => sending' = sending
        /\ fetching' # None => fetching' = fetching
        /\ erasing' # None => erasing' = erasing
    BY DEF RefuseErasure, Crash, talk, history
  <1>2. SameRows
    BY <1>1 DEF SameRows, rows, IInv, TypeOK
  <1>3. RunTypes'
    BY <1>1, RunsTyped DEF IInv
  <1>4. Begun'
    BY <1>1, <1>2, BegunKept DEF rows
  <1> QED  BY <1>1, <1>3, <1>4, RunStep DEF IInv, FilesInv, RowsInv, Erased

(* A reply moves on, with the same recipient and data.                      *)
LEMMA ReplyMoves ==
    ASSUME IInv, NEW m \in Messages, NEW s \in {"pending", "sending", "sent", "dead"},
           NEW written, NEW p, p \in {"sending", None}, Wrote(written, p),
           outbox[m].status # "absent",
           outbox' = [outbox EXCEPT ![m].status = s],
           UNCHANGED <<contact, inbox, asked, media, retries, history>>,
           sending' # None /\ sending' # sending => sending' \in [m : {m}, calling : BOOLEAN]
    PROVE  IInv'
  <1>1. /\ handling' # None => handling' = handling
        /\ asking' # None => asking' = asking
        /\ writing' # None => writing' = writing
        /\ fetching' # None => fetching' = fetching
        /\ erasing' # None => erasing' = erasing
    BY Survivors, NoneAssumption DEF Processes
  <1>2. SameRows
    <2>1. outbox \in [Messages -> Outbox] /\ outbox[m] \in Outbox /\ asked \in [Messages -> Asked]
      BY DEF IInv, TypeOK
    <2>2. [outbox[m] EXCEPT !.status = s] \in Outbox
      BY <2>1 DEF Outbox
    <2>3. outbox' = [outbox EXCEPT ![m] = [outbox[m] EXCEPT !.status = s]]
      OBVIOUS
    <2> QED  BY <2>1, <2>2, <2>3 DEF Outbox, SameRows
  <1>3. RunTypes'
    BY <1>1, RunsTyped DEF IInv
  <1>4. Begun'
    BY <1>1, <1>2, BegunKept
  <1>5. FoundAll'
    BY <1>1, <1>2, FoundKept DEF IInv, RowsInv, history
  <1> QED  BY <1>1, <1>2, <1>3, <1>4, <1>5, RowsMove DEF history, IInv, FilesInv, RowsInv, Erased

LEMMA ReplyStep ==
    ASSUME IInv, NEW m \in Messages,
           ClaimReply(m) \/ Refuse(m) \/ EndCall(m) \/ RecoverReply(m)
    PROVE  IInv'
  <1>1. CASE ClaimReply(m)
    <2>1. sending' \in [m : {m}, calling : BOOLEAN]
      BY <1>1 DEF ClaimReply
    <2> QED  BY <1>1, <2>1, ReplyMoves DEF ClaimReply
  <1>2. ASSUME NEW s \in {"pending", "sent", "dead"}, Sending(m), EndSending(m, s),
               NEW written, Wrote(written, "sending")
        PROVE  IInv'
    <2>1. outbox[m].status # "absent"
      BY <1>2 DEF Sending, IInv, RowsInv, Begun
    <2> QED  BY <1>2, <2>1, ReplyMoves DEF EndSending
  <1>3. CASE Refuse(m)
    BY <1>2, <1>3 DEF Refuse
  <1>4. CASE EndCall(m)
    BY <1>2, <1>4 DEF EndCall
  <1>5. CASE RecoverReply(m)
    <2>1. PICK s \in {"pending", "dead"} : outbox' = [outbox EXCEPT ![m].status = s]
      BY <1>5 DEF RecoverReply
    <2>2. /\ UNCHANGED <<contact, inbox, asked, media, retries, history>>
          /\ outbox[m].status # "absent" /\ Wrote({<<"outbox", m>>}, None)
      BY <1>5 DEF RecoverReply
    <2>3. sending' # None => sending' = sending
      BY <2>2, Survivors, NoneAssumption DEF Processes
    <2> QED  BY <2>1, <2>2, <2>3, ReplyMoves
  <1> QED  BY <1>1, <1>3, <1>4, <1>5

(* A request is claimed, given back or closed, or loses its texts.          *)
LEMMA RequestMoves ==
    ASSUME IInv, NEW m \in Messages, NEW r \in Asked,
           NEW p, p \in {"asking", None}, Wrote({<<"asked", m>>}, p),
           asked[m].status # "absent" /\ r.status # "absent",
           r.status \in {"pending", "processing"} => asked[m].status \in {"pending", "processing"},
           r.recipient = asked[m].recipient /\ r.conv = asked[m].conv,
           r.data => asked[m].data,
           asked' = [asked EXCEPT ![m] = r],
           UNCHANGED <<contact, inbox, outbox, media, retries, history>>,
           asking' # None =>
              \/ asking' = asking /\ asking.m # m
              \/ asking' = [m |-> m, calling |-> FALSE] /\ r.status = "processing"
    PROVE  IInv'
  <1>1. /\ handling' # None => handling' = handling
        /\ writing' # None => writing' = writing
        /\ sending' # None => sending' = sending
        /\ fetching' # None => fetching' = fetching
        /\ erasing' # None => erasing' = erasing
    BY Survivors, NoneAssumption DEF Processes
  <1>2. /\ asked' \in [Messages -> Asked] /\ asked'[m] = r
        /\ \A n \in Messages \ {m} : asked'[n] = asked[n]
    BY DEF IInv, TypeOK
  <1>3. SameRows
    BY <1>2 DEF SameRows, IInv, TypeOK
  <1>4. RunTypes'
    <2>1. [m |-> m, calling |-> FALSE] \in [m : Messages, calling : BOOLEAN]
      OBVIOUS
    <2>2. asking' # None /\ asking' # asking => asking' \in [m : Messages, calling : BOOLEAN]
      BY <2>1
    <2> QED  BY <1>1, <2>2, RunsTyped DEF IInv
  <1>5. Begun'
    <2>1. asking # None => asking.m \in Messages
      BY DEF IInv, TypeOK
    <2> QED  BY <1>1, <1>2, <1>3, <2>1, BegunKept
  <1>6. FoundAll'
    BY <1>1, <1>3, FoundKept DEF IInv, RowsInv, history
  <1> QED  BY <1>1, <1>3, <1>4, <1>5, <1>6, RowsMove DEF history, IInv, FilesInv, RowsInv, Erased

LEMMA RequestTypes ==
    ASSUME NEW r \in Asked, NEW s \in {"pending", "processing", "done"}
    PROVE  /\ [r EXCEPT !.status = s] \in Asked /\ [r EXCEPT !.status = s].status = s
           /\ [r EXCEPT !.status = s].recipient = r.recipient
           /\ [r EXCEPT !.status = s].conv = r.conv /\ [r EXCEPT !.status = s].data = r.data
           /\ AskedErased(r) \in Asked /\ AskedErased(r).status = r.status
           /\ AskedErased(r).recipient = r.recipient
           /\ AskedErased(r).conv = r.conv /\ ~AskedErased(r).data
  BY DEF Asked, AskedErased

LEMMA RequestStep ==
    ASSUME IInv, NEW m \in Messages,
           \/ ClaimAsk(m) \/ BeginAsk(m) \/ RetainAsked(m)
           \/ (EndAsk(m) /\ UNCHANGED outbox) \/ (RecoverAsk(m) /\ UNCHANGED outbox)
    PROVE  IInv'
  <1>1. asked[m] \in Asked /\ outbox \in [Messages -> Outbox]
    BY DEF IInv, TypeOK
  <1>2. None \notin Processes
    BY NoneAssumption
  <1>3. ASSUME NEW s \in {"pending", "processing", "done"}, NEW p \in {"asking", None},
               Wrote({<<"asked", m>>}, p), asked' = [asked EXCEPT ![m].status = s],
               asked[m].status \in {"pending", "processing"},
               UNCHANGED <<contact, inbox, outbox, media, retries, history>>,
               asking' # None =>
                  \/ asking' = asking /\ asking.m # m
                  \/ asking' = [m |-> m, calling |-> FALSE] /\ s = "processing"
        PROVE  IInv'
    <2> DEFINE r == [asked[m] EXCEPT !.status = s]
    <2>1. /\ r \in Asked /\ r.status = s /\ r.recipient = asked[m].recipient
          /\ r.conv = asked[m].conv /\ r.data = asked[m].data
      BY <1>1, RequestTypes
    <2>2. asked' = [asked EXCEPT ![m] = r]
      BY <1>3
    <2>3. asked[m].status # "absent" /\ s # "absent"
      BY <1>3
    <2>4. p \in {"asking", None}
      BY <1>3
    <2> HIDE DEF r
    <2>5. /\ asked[m].status # "absent" /\ r.status # "absent"
          /\ r.status \in {"pending", "processing"} => asked[m].status \in {"pending", "processing"}
          /\ asking' # None =>
                \/ asking' = asking /\ asking.m # m
                \/ asking' = [m |-> m, calling |-> FALSE] /\ r.status = "processing"
      BY <1>3, <2>1, <2>3
    <2>6. /\ Wrote({<<"asked", m>>}, p)
          /\ UNCHANGED <<contact, inbox, outbox, media, retries, history>>
      BY <1>3
    <2> QED  BY <2>1, <2>2, <2>4, <2>5, <2>6, RequestMoves
  <1>4. CASE ClaimAsk(m)
    BY <1>3, <1>4 DEF ClaimAsk
  <1>5. CASE BeginAsk(m)
    <2>1. asking # None /\ asking.m = m /\ asked[m].status = "processing"
      BY <1>5 DEF BeginAsk, Asking, IInv, RowsInv, Begun
    <2>2. CASE /\ asking' = None /\ asked' = [asked EXCEPT ![m].status = "done"]
               /\ Wrote({<<"asked", m>>}, "asking")
               /\ UNCHANGED <<contact, inbox, outbox, media, retries, history>>
      BY <1>3, <2>1, <2>2
    <2>3. CASE /\ asking' = [m |-> m, calling |-> TRUE] /\ ~contact[asked[m].conv].blocked
               /\ UNCHANGED <<rows, handling, writing, sending, fetching, erasing, retries, history>>
      <3>1. SameRows
        BY <2>3 DEF SameRows, rows, IInv, TypeOK
      <3>2. [m |-> m, calling |-> TRUE] \in [m : Messages, calling : BOOLEAN]
        OBVIOUS
      <3>3. RunTypes'
        BY <2>3, <3>2, RunsTyped DEF IInv
      <3>4. Begun'
        BY <2>1, <2>3, <3>1, BegunKept DEF rows
      <3> QED  BY <2>3, <3>3, <3>4, RunStep DEF history, IInv, FilesInv, RowsInv, Erased
    <2> QED  BY <1>5, <2>2, <2>3 DEF BeginAsk
  <1>6. CASE EndAsk(m) /\ UNCHANGED outbox
    <2>1. asking # None /\ asked[m].status = "processing" /\ outbox[m].status = "absent"
      BY <1>6 DEF EndAsk, Asking, IInv, RowsInv, Begun, Requests
    <2>2. ~Deliver(m)
      BY <1>1, <1>6, <2>1 DEF Deliver, NewReply
    <2> QED  BY <1>3, <1>6, <2>1, <2>2 DEF EndAsk
  <1>7. CASE RecoverAsk(m) /\ UNCHANGED outbox
    <2>1. asked[m].status = "processing" /\ outbox[m].status = "absent" /\ ~Asking(m)
      BY <1>7 DEF RecoverAsk, IInv, RowsInv, Requests
    <2>2. ~Deliver(m)
      BY <1>1, <1>7, <2>1 DEF Deliver, NewReply
    <2>3. /\ asked' = [asked EXCEPT ![m].status = "pending"] /\ Wrote({<<"asked", m>>}, None)
          /\ UNCHANGED <<contact, inbox, outbox, media, retries, history>>
      BY <1>7, <2>2 DEF RecoverAsk, history
    <2>4. asking' # None => asking' = asking /\ asking.m # m
      BY <1>2, <2>1, <2>3, Survivors DEF Processes, Asking
    <2> QED  BY <1>3, <2>1, <2>3, <2>4
  <1>8. CASE RetainAsked(m)
    <2>1. /\ asked[m].status = "done" /\ Wrote({<<"asked", m>>}, None)
          /\ asked' = [asked EXCEPT ![m] = AskedErased(asked[m])]
          /\ UNCHANGED <<contact, inbox, outbox, media, retries, history>>
      BY <1>8 DEF RetainAsked
    <2>2. asking' # None => asking' = asking /\ asking.m # m
      BY <1>2, <2>1, Survivors DEF Processes, IInv, RowsInv, Begun
    <2>3. /\ AskedErased(asked[m]) \in Asked /\ AskedErased(asked[m]).status = "done"
          /\ AskedErased(asked[m]).recipient = asked[m].recipient
          /\ AskedErased(asked[m]).conv = asked[m].conv /\ ~AskedErased(asked[m]).data
      BY <1>1, <2>1, RequestTypes
    <2> QED  BY <2>1, <2>2, <2>3, RequestMoves
  <1> QED  BY <1>4, <1>5, <1>6, <1>7, <1>8

-----------------------------------------------------------------------------
(* The steps that add a reply: after an erasure it is not to the phone, or  *)
(* `beside` records it; a request of the subject whose commit may still     *)
(* come has not seen it only if `beside` records it.                        *)
LEMMA NewReplyStep ==
    ASSUME IInv, NEW m \in Messages, NEW reply \in Outbox, NEW written, NEW p,
           p \in {"asking", "writing", None}, Wrote(written, p),
           inbox[m].status = "done", outbox[m].status = "absent",
           reply.status = "pending", reply.data => reply.recipient = "phone",
           reply.recipient = "phone" /\ ~IsErased => reply.conv = "first",
           m \in gone /\ reply.recipient = "phone" => m \in beside',
           erasing' # None /\ ~IsErased => m \in beside',
           outbox' = [outbox EXCEPT ![m] = reply],
           asked' \in [Messages -> Asked], \A n \in Messages \ {m} : asked'[n] = asked[n],
           asked'[m].status = "absent" <=> asked[m].status = "absent",
           asked'[m].status \in {"absent", "done"},
           asked'[m].recipient = asked[m].recipient /\ asked'[m].conv = asked[m].conv,
           asked'[m].data = asked[m].data,
           beside \subseteq beside' /\ beside' \subseteq Messages,
           asking' # None => asking' = asking /\ asking.m # m,
           writing' # None => writing' = writing /\ writing.m # m,
           UNCHANGED <<contact, inbox, media, retries, gone, found, late>>
    PROVE  IInv'
  <1>1. /\ handling' # None => handling' = handling
        /\ sending' # None => sending' = sending
        /\ fetching' # None => fetching' = fetching
        /\ erasing' # None => erasing' = erasing
    BY Survivors, NoneAssumption DEF Processes
  <1>2. /\ outbox' \in [Messages -> Outbox] /\ outbox'[m] = reply
        /\ \A n \in Messages \ {m} : outbox'[n] = outbox[n]
    BY DEF IInv, TypeOK
  <1>3. RunTypes'
    BY <1>1, RunsTyped DEF IInv
  <1>4. TypeOK'
    BY <1>2, <1>3 DEF IInv, TypeOK, RunTypes
  <1>5. FilesInv'
    BY <1>1 DEF IInv, FilesInv, FileOK
  <1>6. Customer' /\ Received'
    BY DEF IInv, RowsInv, Customer, Received, IsErased
  <1>7. Requests'
    BY <1>2 DEF IInv, RowsInv, Requests
  <1>8. Replied'
    BY <1>2 DEF IInv, RowsInv, Replied, IsErased
  <1>9. Begun'
    <2>1. /\ asking # None => asking.m \in Messages
          /\ writing # None => writing.m \in Messages
          /\ sending # None => sending.m \in Messages
      BY DEF IInv, TypeOK
    <2>2. handling' # None => inbox'[handling'].status = "queued"
      BY <1>1 DEF IInv, RowsInv, Begun
    <2>3. asking' # None =>
            /\ asked'[asking'.m].status = "processing"
            /\ asking'.calling => ~contact'[asked'[asking'.m].conv].blocked
      BY <2>1 DEF IInv, RowsInv, Begun
    <2>4. writing' # None =>
            /\ inbox'[writing'.m].status = "done"
            /\ asked'[writing'.m].status = "absent" /\ outbox'[writing'.m].status = "absent"
            /\ writing'.who = "phone"
            /\ writing'.moves => ~contact'[inbox'[writing'.m].conv].blocked
      BY <1>2, <2>1 DEF IInv, RowsInv, Begun
    <2>5. sending' # None => outbox'[sending'.m].status # "absent"
      BY <1>1, <1>2, <2>1 DEF IInv, RowsInv, Begun
    <2> QED  BY <2>2, <2>3, <2>4, <2>5 DEF Begun
  <1>10. FoundAll'
    <2> SUFFICES ASSUME erasing' # None, ~IsErased
                 PROVE  /\ erasing'.contact = "first"
                        /\ \A n \in Messages :
                             /\ inbox[n].status # "absent" /\ inbox[n].sender = "phone" => n \in erasing'.inbox
                             /\ n \in erasing'.asked <=> asked'[n].status # "absent"
                             /\ n \in erasing'.outbox => outbox'[n].status # "absent" /\ outbox'[n].recipient = "phone"
                             /\ outbox'[n].status # "absent" /\ outbox'[n].recipient = "phone" =>
                                   n \in erasing'.outbox \/ n \in beside'
      BY DEF FoundAll, IsErased
    <2> QED  BY <1>1, <1>2 DEF IInv, RowsInv, FoundAll
  <1>11. Erased'
    <2>1. gone \subseteq Messages /\ found.replies \subseteq Messages
      BY DEF IInv, TypeOK
    <2>2. m \notin found.replies
      BY DEF IInv, RowsInv, Erased
    <2>3. \A n \in Messages : asked'[n].data = asked[n].data
      OBVIOUS
    <2>4. \A n \in gone :
            /\ IsErased
            /\ inbox[n].status # "absent" /\ inbox[n].conv = "first"
            /\ ~asked'[n].data
            /\ n \notin beside' /\ outbox'[n].status # "absent" => outbox'[n].recipient # "phone"
      BY <1>2, <2>1, <2>3 DEF IInv, RowsInv, Erased
    <2>5. \A n \in found.replies : outbox'[n] = outbox[n]
      BY <1>2, <2>1, <2>2
    <2> QED  BY <2>4, <2>5 DEF IInv, RowsInv, Erased, IsErased
  <1> QED  BY <1>4, <1>5, <1>6, <1>7, <1>8, <1>9, <1>10, <1>11 DEF IInv, RowsInv

(* What _deliver enqueues.  Before the erasure the phone has one contact.   *)
LEMMA Delivered ==
    ASSUME IInv, NEW m \in Messages, asked[m].status = "processing", Deliver(m),
           NEW reply,
           reply = NewReply(asked[m].recipient, asked[m].data, ConversationOf(asked[m].recipient))
    PROVE  /\ reply \in Outbox /\ reply.status = "pending"
           /\ reply.data => reply.recipient = "phone"
           /\ reply.recipient = asked[m].recipient
           /\ reply.recipient = "phone" /\ ~IsErased => reply.conv = "first"
           /\ outbox' = [outbox EXCEPT ![m] = reply]
           /\ asked' \in [Messages -> Asked] /\ \A n \in Messages \ {m} : asked'[n] = asked[n]
           /\ asked'[m].status = "done"
           /\ asked'[m].recipient = asked[m].recipient /\ asked'[m].conv = asked[m].conv
           /\ asked'[m].data = asked[m].data
           /\ inbox[m].status = "done" /\ outbox[m].status = "absent"
           /\ inbox[m].conv \in {"first", "second"} /\ contact[inbox[m].conv] # None
           /\ asked[m].recipient = "phone" => asked[m].conv = inbox[m].conv
           /\ asked[m].recipient \in {"phone", "ghost"}
           /\ writing # None => writing.m # m
  <1> DEFINE who == asked[m].recipient
             c == ConversationOf(who)
  <1>1. asked[m] \in Asked /\ asked \in [Messages -> Asked]
    BY DEF IInv, TypeOK
  <1>2. /\ inbox[m].status = "done" /\ outbox[m].status = "absent"
        /\ who = "phone" => asked[m].conv = inbox[m].conv
        /\ who \in {"phone", "ghost"} /\ (asked[m].data => who = "phone")
        /\ inbox[m].conv \in {"first", "second"} /\ contact[inbox[m].conv] # None
    BY DEF IInv, RowsInv, Requests, Received
  <1>3. c \in Contacts \cup {None}
    BY DEF ConversationOf, Owners
  <1>4. who = "phone" /\ ~IsErased => c = "first"
    <2> SUFFICES ASSUME who = "phone", ~IsErased  PROVE ConversationOf("phone") = "first"
      OBVIOUS
    <2>1. Owners("phone") = {"first"}
      BY <1>2, PhoneOwner DEF IInv, RowsInv, Customer
    <2> QED  BY <2>1 DEF ConversationOf
  <1> HIDE DEF c
  <1>5. reply = [status |-> "pending", recipient |-> who, data |-> asked[m].data, conv |-> c]
    BY DEF NewReply, c
  <1>6. /\ reply \in Outbox /\ reply.status = "pending" /\ reply.recipient = who
        /\ reply.data = asked[m].data /\ reply.conv = c
    BY <1>1, <1>3, <1>5 DEF Outbox, Asked
  <1>7. outbox' = [outbox EXCEPT ![m] = reply]
    BY DEF Deliver
  <1>8. /\ asked' \in [Messages -> Asked] /\ \A n \in Messages \ {m} : asked'[n] = asked[n]
        /\ asked'[m].status = "done"
        /\ asked'[m].recipient = asked[m].recipient /\ asked'[m].conv = asked[m].conv
        /\ asked'[m].data = asked[m].data
    <2>1. asked' = [asked EXCEPT ![m] = [asked[m] EXCEPT !.status = "done"]]
      BY DEF Deliver
    <2> QED  BY <1>1, <2>1, RequestTypes
  <1>9. writing # None => writing.m # m
    BY DEF IInv, RowsInv, Begun
  <1> QED  BY <1>2, <1>4, <1>6, <1>7, <1>8, <1>9

LEMMA DeliverStep ==
    ASSUME IInv, NEW m \in Messages, (EndAsk(m) \/ RecoverAsk(m)) /\ Deliver(m)
    PROVE  IInv'
  <1> DEFINE reply == NewReply(asked[m].recipient, asked[m].data, ConversationOf(asked[m].recipient))
  <1>1. asked[m].status = "processing"
    BY DEF EndAsk, RecoverAsk, Asking, IInv, RowsInv, Begun
  <1> HIDE DEF reply
  <1>2. beside \subseteq Messages
    BY DEF IInv, TypeOK
  <1>6. asked' # [asked EXCEPT ![m].status = "pending"]
    <2>1. asked[m] \in Asked /\ asked \in [Messages -> Asked]
      BY DEF IInv, TypeOK
    <2>2. [asked[m] EXCEPT !.status = "pending"].status = "pending"
      BY <2>1 DEF Asked
    <2>3. [asked[m] EXCEPT !.status = "done"].status = "done"
      BY <2>1 DEF Asked
    <2> QED  BY <2>1, <2>2, <2>3 DEF Deliver
  (* A request of the subject has found the row.                            *)
  <1>3. ASSUME NEW W, NEW p, p \in {"asking", None}, Wrote({<<"asked", m>>} \cup W, p)
        PROVE  erasing' # None => IsErased
    <2>1. erasing' # None => erasing' = erasing /\ \A n \in erasing.asked : <<"asked", n>> \notin {<<"asked", m>>} \cup W
      BY <1>3, Survivors, NoneAssumption DEF Processes
    <2> QED  BY <1>1, <2>1 DEF IInv, RowsInv, FoundAll
  <1>4. CASE EndAsk(m)
    <2>1. PICK W \in SUBSET {<<"contact", asked[m].conv>>} :
             Wrote({<<"asked", m>>} \cup W, "asking")
      BY <1>4, <1>6 DEF EndAsk
    <2>2. /\ asking # None /\ asking.m = m /\ asking.calling /\ asking' = None
          /\ UNCHANGED <<contact, inbox, media, retries, gone, found, beside, late>>
      BY <1>4 DEF EndAsk, Asking, history
    (* The call was begun for a contact that is not blocked.                *)
    <2>3. m \in gone => asked[m].recipient # "phone"
      <3>1. ~contact[asked[m].conv].blocked
        BY <2>2 DEF IInv, RowsInv, Begun
      <3> QED  BY <1>1, <3>1, Delivered DEF reply, IInv, RowsInv, Erased, Customer, IsErased
    <2>4. writing' # None => writing' = writing
      BY <2>1, Survivors
    <2>5. erasing' # None => IsErased
      BY <1>3, <2>1
    <2> QED  BY <1>1, <1>2, <2>1, <2>2, <2>3, <2>4, <2>5, Delivered, NewReplyStep DEF reply
  <1>5. CASE RecoverAsk(m)
    <2> DEFINE c == asked[m].conv
    <2>1. PICK W \in SUBSET (IF contact[c].blocked THEN {} ELSE {<<"contact", c>>}) :
             /\ Wrote({<<"asked", m>>} \cup W, None)
             /\ beside' = IF contact[c].who = "anon" THEN beside \cup {m} ELSE beside
      BY <1>5, <1>6 DEF RecoverAsk
    <2>2. /\ ~Asking(m)
          /\ UNCHANGED <<contact, inbox, media, retries, gone, found, late>>
      BY <1>5 DEF RecoverAsk
    <2>3. m \in gone /\ asked[m].recipient = "phone" => m \in beside'
      BY <1>1, <2>1, Delivered DEF reply, IInv, RowsInv, Erased, IsErased
    <2>4. /\ writing' # None => writing' = writing
          /\ asking' # None => asking' = asking /\ asking.m # m
      BY <2>1, <2>2, Survivors, NoneAssumption DEF Processes, Asking
    <2>5. erasing' # None => IsErased
      BY <1>3, <2>1
    <2>6. beside \subseteq beside' /\ beside' \subseteq Messages
      BY <1>2, <2>1
    <2> HIDE DEF c
    <2> QED  BY <1>1, <2>1, <2>2, <2>3, <2>4, <2>5, <2>6, Delivered, NewReplyStep DEF reply
  <1> QED  BY <1>4, <1>5

(* An attendant's message either writes the conversation, which an erasure  *)
(* has not written then, or is recorded in `beside`.                        *)
LEMMA CommitNoteStep == ASSUME IInv, CommitNote  PROVE IInv'
  <1> DEFINE m == writing.m
             c == inbox[m].conv
             reply == NewReply(writing.who, TRUE, c)
             written == Writes("writing")
  <1>1. /\ writing # None /\ writing' = None
        /\ outbox' = [outbox EXCEPT ![m] = reply]
        /\ beside' = IF ~writing.moves /\ Escapes(c) THEN beside \cup {m} ELSE beside
        /\ Wrote(written, "writing")
        /\ UNCHANGED <<contact, inbox, asked, media, retries, gone, found, late>>
    BY DEF CommitNote
  <1>2. /\ m \in Messages /\ inbox[m].status = "done" /\ outbox[m].status = "absent"
        /\ asked[m].status = "absent" /\ writing.who = "phone"
        /\ writing.moves => ~contact[c].blocked
        /\ beside \subseteq Messages /\ asked \in [Messages -> Asked]
    BY <1>1 DEF IInv, TypeOK, RowsInv, Begun
  <1>3. /\ c \in {"first", "second"} /\ contact[c] # None
        /\ ~IsErased => c = "first"
    BY <1>2 DEF IInv, RowsInv, Received, Customer
  <1>4. m \in gone => IsErased /\ c = "first" /\ contact[c].who = "anon" /\ contact[c].blocked
    BY DEF IInv, RowsInv, Erased, Customer, IsErased
  <1>5. writing.moves => written = {<<"contact", c>>}
    BY <1>1 DEF Writes
  <1>6. asking' # None => asking' = asking /\ asking.m # m
    BY <1>1, <1>2, Survivors DEF IInv, RowsInv, Begun
  <1> HIDE DEF m, c
  <1>7. /\ reply \in Outbox /\ reply.status = "pending" /\ reply.recipient = "phone"
        /\ reply.conv = c
    BY <1>2, <1>3 DEF NewReply, Outbox, Identities, Contacts
  <1> HIDE DEF reply, written
  <1>8. m \in gone => m \in beside'
    BY <1>1, <1>2, <1>4 DEF Escapes
  <1>9. erasing' # None /\ ~IsErased => m \in beside'
    <2> SUFFICES ASSUME erasing' # None, ~IsErased  PROVE m \in beside'
      OBVIOUS
    <2>1. erasing' = erasing /\ <<"contact", erasing.contact>> \notin written
      BY <1>1, Survivors
    <2>2. erasing.contact = c
      BY <1>3, <2>1 DEF IInv, RowsInv, FoundAll
    <2> QED  BY <1>1, <1>5, <2>1, <2>2 DEF Escapes
  <1>10. beside \subseteq beside' /\ beside' \subseteq Messages
    BY <1>1, <1>2
  <1> QED  BY <1>1, <1>2, <1>3, <1>6, <1>7, <1>8, <1>9, <1>10, NewReplyStep

-----------------------------------------------------------------------------
(* The steps that change the rows of messages and contacts.                 *)
LEMMA RetainInboxStep == ASSUME IInv, NEW m \in Messages, RetainInbox(m)  PROVE IInv'
  <1>1. /\ inbox' = [inbox EXCEPT ![m] = InboxErased(inbox[m])]
        /\ UNCHANGED <<contact, asked, outbox, media, retries, gone, found, beside, late>>
        /\ Wrote({<<"inbox", m>>}, None) /\ inbox \in [Messages -> Inbox]
        /\ inbox[m].status = "done"
    BY DEF RetainInbox, history, IInv, TypeOK
  <1>2. /\ InboxErased(inbox[m]) \in Inbox
        /\ InboxErased(inbox[m]).sender = "anon" /\ ~InboxErased(inbox[m]).data
        /\ InboxErased(inbox[m]).status = inbox[m].status
        /\ InboxErased(inbox[m]).conv = inbox[m].conv
    BY <1>1 DEF InboxErased, Inbox
  <1>3. /\ inbox' \in [Messages -> Inbox]
        /\ inbox'[m].sender = "anon" /\ ~inbox'[m].data
        /\ \A n \in Messages : /\ n # m => inbox'[n] = inbox[n]
                               /\ inbox'[n].status = inbox[n].status
                               /\ inbox'[n].conv = inbox[n].conv
    BY <1>1, <1>2
  <1>4. /\ handling' # None => handling' = handling
        /\ asking' # None => asking' = asking
        /\ writing' # None => writing' = writing
        /\ sending' # None => sending' = sending
        /\ fetching' # None => fetching' = fetching
        /\ erasing' # None => erasing' = erasing
    BY <1>1, Survivors, NoneAssumption DEF Processes
  <1>5. TypeOK'
    <2>1. RunTypes'
      BY <1>4, RunsTyped DEF IInv
    <2> QED  BY <1>1, <1>3, <2>1 DEF IInv, TypeOK, RunTypes
  <1>6. FilesInv'
    <2>1. /\ erasing # None => erasing.inbox \subseteq Messages
          /\ found.files \subseteq Messages
      BY DEF IInv, TypeOK
    <2> QED  BY <1>1, <1>3, <1>4, <2>1 DEF IInv, FilesInv, FileOK
  <1>7. Customer' /\ Received' /\ Requests' /\ Replied'
    BY <1>1, <1>3 DEF IInv, RowsInv, Customer, Received, Requests, Replied, IsErased
  <1>8. Begun'
    <2>1. /\ handling # None => handling \in Messages
          /\ writing # None => writing.m \in Messages
      BY DEF IInv, TypeOK
    <2> QED  BY <1>1, <1>3, <1>4, <2>1 DEF IInv, RowsInv, Begun
  <1>9. FoundAll'
    BY <1>1, <1>3, <1>4 DEF IInv, RowsInv, FoundAll, IsErased
  <1>10. Erased'
    <2>1. gone \subseteq Messages
      BY DEF IInv, TypeOK
    <2> QED  BY <1>1, <1>3, <2>1 DEF IInv, RowsInv, Erased, IsErased
  <1> QED  BY <1>5, <1>6, <1>7, <1>8, <1>9, <1>10 DEF IInv, RowsInv

LEMMA RetainOutboxStep == ASSUME IInv, NEW m \in Messages, RetainOutbox(m)  PROVE IInv'
  <1>1. /\ outbox' = [outbox EXCEPT ![m] = OutboxErased(outbox[m])]
        /\ UNCHANGED <<contact, inbox, asked, media, retries, gone, found, beside, late>>
        /\ Wrote({<<"outbox", m>>}, None) /\ outbox \in [Messages -> Outbox]
        /\ outbox[m].status # "absent"
    BY DEF RetainOutbox, history, IInv, TypeOK
  <1>2. /\ OutboxErased(outbox[m]) \in Outbox
        /\ OutboxErased(outbox[m]).recipient = "anon" /\ ~OutboxErased(outbox[m]).data
        /\ OutboxErased(outbox[m]).status = outbox[m].status
        /\ OutboxErased(outbox[m]).conv = outbox[m].conv
    BY <1>1 DEF OutboxErased, Outbox, Identities
  <1>3. /\ outbox' \in [Messages -> Outbox]
        /\ outbox'[m].recipient = "anon" /\ ~outbox'[m].data
        /\ \A n \in Messages : /\ n # m => outbox'[n] = outbox[n]
                               /\ outbox'[n].status = outbox[n].status
                               /\ outbox'[n].conv = outbox[n].conv
    BY <1>1, <1>2
  <1>4. /\ handling' # None => handling' = handling
        /\ asking' # None => asking' = asking
        /\ writing' # None => writing' = writing
        /\ sending' # None => sending' = sending
        /\ fetching' # None => fetching' = fetching
        /\ erasing' # None => erasing' = erasing /\ m \notin erasing.outbox
    BY <1>1, Survivors, NoneAssumption DEF Processes
  <1>5. TypeOK'
    <2>1. RunTypes'
      BY <1>4, RunsTyped DEF IInv
    <2> QED  BY <1>1, <1>3, <2>1 DEF IInv, TypeOK, RunTypes
  <1>6. FilesInv'
    BY <1>1, <1>4 DEF IInv, FilesInv, FileOK
  <1>7. Customer' /\ Received' /\ Requests' /\ Replied'
    BY <1>1, <1>3 DEF IInv, RowsInv, Customer, Received, Requests, Replied, IsErased
  <1>8. Begun'
    <2>1. /\ sending # None => sending.m \in Messages
          /\ writing # None => writing.m \in Messages
      BY DEF IInv, TypeOK
    <2> QED  BY <1>1, <1>3, <1>4, <2>1 DEF IInv, RowsInv, Begun
  <1>9. FoundAll'
    BY <1>1, <1>3, <1>4 DEF IInv, RowsInv, FoundAll, IsErased
  <1>10. Erased'
    <2>1. gone \subseteq Messages /\ found.replies \subseteq Messages
      BY DEF IInv, TypeOK
    <2> QED  BY <1>1, <1>3, <2>1 DEF IInv, RowsInv, Erased, IsErased
  <1> QED  BY <1>5, <1>6, <1>7, <1>8, <1>9, <1>10 DEF IInv, RowsInv

(* A message from the phone creates its contact, or finds the only one; it  *)
(* writes the contact that a request has found.                             *)
LEMMA ReceiveStep == ASSUME IInv, NEW m \in Messages, Receive(m)  PROVE IInv'
  <1> DEFINE c == IF Owners("phone") # {} THEN CHOOSE d \in Owners("phone") : TRUE
                  ELSE IF contact["first"] = None THEN "first" ELSE "second"
             row == [status |-> "queued", sender |-> "phone", data |-> TRUE, conv |-> c]
  <1>1. /\ inbox[m].status = "absent"
        /\ contact' = [contact EXCEPT ![c] = IF contact[c] = None THEN NewContact("phone") ELSE contact[c]]
        /\ inbox' = [inbox EXCEPT ![m] = row]
        /\ media' = [media EXCEPT ![m].status = IF m \in WithMedia THEN "pending" ELSE media[m].status]
        /\ Wrote({<<"contact", c>>}, None)
        /\ UNCHANGED <<asked, outbox, retries, gone, found, beside, late>>
    BY DEF Receive, history
  <1>2. /\ inbox \in [Messages -> Inbox] /\ media \in [Messages -> Media]
        /\ contact \in [Contacts -> Contact \cup {None}]
    BY DEF IInv, TypeOK
  <1>3. c = IF IsErased THEN "second" ELSE "first"
    <2>1. CASE IsErased
      BY <2>1, PhoneOwner DEF IInv, RowsInv, IsErased
    <2>2. CASE ~IsErased
      BY <2>2, PhoneOwner DEF IInv, RowsInv
    <2> QED  BY <2>1, <2>2
  <1> HIDE DEF c
  <1>4. /\ NewContact("phone") \in Contact /\ NewContact("phone") # None
        /\ NewContact("phone").who = "phone" /\ ~NewContact("phone").blocked
    <2>1. /\ NewContact("phone") \in Contact
          /\ NewContact("phone").who = "phone" /\ ~NewContact("phone").blocked
      BY DEF NewContact, Contact, Identities
    <2> QED  BY <2>1, NoneAssumption
  <1>5. /\ contact' \in [Contacts -> Contact \cup {None}]
        /\ contact'[c] # None /\ contact'[c].who = "phone" /\ ~contact'[c].blocked
        /\ \A d \in Contacts : contact[d] # None => contact'[d] = contact[d]
        /\ \A d \in Contacts \ {c} : contact'[d] = contact[d]
        /\ IsErased' <=> IsErased
    <2>1. c \in Contacts
      BY <1>3 DEF Contacts
    <2>2. contact[c] # None => contact[c].who = "phone" /\ ~contact[c].blocked
      BY <1>3 DEF IInv, RowsInv, Customer, IsErased
    <2>3. /\ contact' \in [Contacts -> Contact \cup {None}]
          /\ contact'[c] = IF contact[c] = None THEN NewContact("phone") ELSE contact[c]
          /\ \A d \in Contacts \ {c} : contact'[d] = contact[d]
      BY <1>1, <1>2, <1>4, <2>1
    <2> QED  BY <1>3, <1>4, <2>2, <2>3 DEF IsErased, Contacts
  <1>6. /\ row \in Inbox /\ row.status = "queued" /\ row.sender = "phone" /\ row.conv = c /\ row.data
    BY <1>3 DEF Inbox, Contacts
  <1> HIDE DEF row
  <1>7. /\ inbox' \in [Messages -> Inbox] /\ inbox'[m] = row
        /\ \A n \in Messages \ {m} : inbox'[n] = inbox[n]
    BY <1>1, <1>2, <1>6
  <1>8. /\ media[m].status = "absent" /\ FileOK(media[m]) /\ media[m] \in Media
        /\ m \notin found.files
        /\ fetching # None => fetching.m # m
    BY <1>1, <1>2 DEF IInv, FilesInv
  <1>9. /\ media' \in [Messages -> Media] /\ FileOK(media'[m])
        /\ \A n \in Messages \ {m} : media'[n] = media[n]
    <2> DEFINE s == IF m \in WithMedia THEN "pending" ELSE media[m].status
               f == [media[m] EXCEPT !.status = s]
    <2>1. s \in {"pending", "absent"}
      BY <1>8
    <2> HIDE DEF s
    <2>2. f \in Media /\ f.status = s /\ f.file = media[m].file /\ f.copy = media[m].copy
          /\ f.attempts = media[m].attempts
      BY <1>8, <2>1 DEF Media
    <2>3. FileOK(f)
      <3> HIDE DEF f
      <3> QED  BY <1>8, <2>1, <2>2, BoundsAssumption DEF FileOK
    <2>4. media' = [media EXCEPT ![m] = f]
      BY <1>1 DEF s
    <2> HIDE DEF f
    <2> QED  BY <1>2, <2>2, <2>3, <2>4
  <1>10. /\ handling' # None => handling' = handling
         /\ asking' # None => asking' = asking
         /\ writing' # None => writing' = writing
         /\ sending' # None => sending' = sending
         /\ fetching' # None => fetching' = fetching
         /\ erasing' # None => erasing' = erasing /\ erasing.contact # c
    BY <1>1, Survivors, NoneAssumption DEF Processes
  <1>11. TypeOK'
    <2>1. \A n \in Messages : media'[n].attempts <= MaxAttempts
      BY <1>9 DEF FileOK, IInv, TypeOK
    <2>2. RunTypes'
      BY <1>10, RunsTyped DEF IInv
    <2> QED  BY <1>1, <1>5, <1>7, <1>9, <2>1, <2>2 DEF IInv, TypeOK, RunTypes
  <1>12. FilesInv'
    <2>1. \A n \in Messages : FileOK(media'[n])
      BY <1>9 DEF IInv, FilesInv
    <2>2. \A n \in Messages : FileOK(media[n])'
      BY <2>1 DEF FileOK
    <2>3. /\ found.files \subseteq Messages
          /\ fetching # None => fetching.m \in Messages
          /\ erasing # None => erasing.inbox \subseteq Messages
      BY DEF IInv, TypeOK
    <2>4. \A n \in Messages : inbox'[n].status = "absent" => media'[n].status = "absent"
      BY <1>6, <1>7, <1>9 DEF IInv, FilesInv
    <2>5. fetching # None => media'[fetching.m] = media[fetching.m]
      BY <1>8, <1>9, <2>3
    <2>6. \A n \in found.files : inbox'[n] = inbox[n] /\ media'[n] = media[n]
      BY <1>7, <1>8, <1>9, <2>3
    <2>7. erasing # None => \A n \in erasing.inbox : inbox'[n] = inbox[n]
      BY <1>1, <1>7, <2>3 DEF IInv, FilesInv
    <2> QED  BY <1>1, <1>10, <2>2, <2>4, <2>5, <2>6, <2>7 DEF IInv, FilesInv
  <1>13. Customer'
    <2>1. CASE IsErased
      BY <1>3, <1>5, <2>1 DEF IInv, RowsInv, Customer, Contacts, IsErased
    <2>2. CASE ~IsErased
      BY <1>3, <1>5, <2>2 DEF IInv, RowsInv, Customer, Contacts, IsErased
    <2> QED  BY <2>1, <2>2
  <1>14. Received'
    <2> SUFFICES ASSUME NEW n \in Messages
                 PROVE  /\ inbox'[n].data => inbox'[n].sender = "phone"
                        /\ inbox'[n].status # "absent" =>
                             /\ inbox'[n].conv \in {"first", "second"} /\ contact'[inbox'[n].conv] # None
                             /\ inbox'[n].sender = "phone" => contact'[inbox'[n].conv].who = "phone"
                        /\ inbox'[n].status = "queued" /\ inbox'[n].sender = "anon" => IsErased'
      BY DEF Received
    <2>1. CASE n = m
      BY <1>3, <1>5, <1>6, <1>7, <2>1
    <2>2. CASE n # m
      BY <1>5, <1>7, <2>2 DEF IInv, RowsInv, Received, Contacts
    <2> QED  BY <2>1, <2>2
  <1>15. outbox[m].status = "absent" /\ asked[m].status = "absent"
    BY <1>1 DEF IInv, RowsInv, Replied, Requests
  <1>16. Requests'
    BY <1>1, <1>5, <1>7, <1>15 DEF IInv, RowsInv, Requests, Contacts
  <1>17. Replied'
    BY <1>1, <1>5, <1>7, <1>15 DEF IInv, RowsInv, Replied
  <1>18. Begun'
    <2>1. /\ handling # None => handling \in Messages
          /\ asking # None => asking.m \in Messages
          /\ writing # None => writing.m \in Messages
      BY DEF IInv, TypeOK
    <2>2. handling' # None => inbox'[handling'].status = "queued"
      BY <1>1, <1>7, <1>10, <2>1 DEF IInv, RowsInv, Begun
    <2>3. asking' # None =>
            /\ asked'[asking'.m].status = "processing"
            /\ asking'.calling => ~contact'[asked'[asking'.m].conv].blocked
      <3>1. asking # None => asked[asking.m].status = "processing"
        BY DEF IInv, RowsInv, Begun
      <3>2. asking # None =>
              asked[asking.m].conv \in Contacts /\ contact[asked[asking.m].conv] # None
        BY <2>1, <3>1 DEF IInv, RowsInv, Requests, Received, Contacts
      <3> QED  BY <1>1, <1>5, <1>10, <3>2 DEF IInv, RowsInv, Begun
    <2>4. writing' # None =>
            /\ inbox'[writing'.m].status = "done"
            /\ asked'[writing'.m].status = "absent" /\ outbox'[writing'.m].status = "absent"
            /\ writing'.who = "phone"
            /\ writing'.moves => ~contact'[inbox'[writing'.m].conv].blocked
      <3>1. writing # None =>
              /\ inbox[writing.m].status = "done" /\ inbox'[writing.m] = inbox[writing.m]
              /\ inbox[writing.m].conv \in Contacts /\ contact[inbox[writing.m].conv] # None
        BY <1>1, <1>7, <2>1 DEF IInv, RowsInv, Begun, Received, Contacts
      <3> QED  BY <1>1, <1>5, <1>10, <3>1 DEF IInv, RowsInv, Begun
    <2>5. sending' # None => outbox'[sending'.m].status # "absent"
      BY <1>1, <1>10 DEF IInv, RowsInv, Begun
    <2> QED  BY <2>2, <2>3, <2>4, <2>5 DEF Begun
  (* A request that would find less than there is now is lost.              *)
  <1>19. FoundAll'
    <2>1. erasing' # None => IsErased
      BY <1>3, <1>10 DEF IInv, RowsInv, FoundAll
    <2> QED  BY <1>5, <2>1 DEF FoundAll
  <1>20. Erased'
    <2>1. gone \subseteq Messages /\ found.replies \subseteq Messages
      BY DEF IInv, TypeOK
    <2>2. m \notin gone
      BY <1>1 DEF IInv, RowsInv, Erased
    <2> QED  BY <1>1, <1>5, <1>7, <2>1, <2>2 DEF IInv, RowsInv, Erased
  <1> QED  BY <1>11, <1>12, <1>13, <1>14, <1>16, <1>17, <1>18, <1>19, <1>20 DEF IInv, RowsInv

(* The contact of the sender of a message that is handled.                  *)
LEMMA Handled ==
    ASSUME Customer, Received, TypeOK, NEW m \in Messages, inbox[m].status # "absent"
    PROVE  /\ inbox[m].sender \in {"phone", "anon"}
           /\ ContactFor(m) = IF inbox[m].sender = "phone" THEN inbox[m].conv ELSE "stray"
           /\ Number(inbox[m].sender) = IF inbox[m].sender = "phone" THEN "phone" ELSE "ghost"
  <1>1. inbox[m] \in Inbox
    BY DEF TypeOK
  <1>2. inbox[m].sender \in {"phone", "anon"}
    BY <1>1 DEF Inbox
  <1>3. Number(inbox[m].sender) = IF inbox[m].sender = "phone" THEN "phone" ELSE "ghost"
    BY <1>2 DEF Number
  <1>4. CASE inbox[m].sender = "phone"
    <2>1. /\ inbox[m].conv \in {"first", "second"} /\ contact[inbox[m].conv] # None
          /\ contact[inbox[m].conv].who = "phone"
      BY <1>4 DEF Received
    <2>2. Owners("phone") = {inbox[m].conv}
      BY <2>1, PhoneOwner DEF Customer, IsErased
    <2> QED  BY <1>3, <1>4, <2>2 DEF ContactFor
  <1>5. CASE inbox[m].sender = "anon"
    BY <1>3, <1>5, PhoneOwner DEF ContactFor
  <1> QED  BY <1>2, <1>3, <1>4, <1>5

(* A reply or a request goes to the contact of the phone, or has no text.   *)
LEMMA CommitHandlingStep == ASSUME IInv, CommitHandling  PROVE IInv'
  <1> DEFINE m == handling
             c == ContactFor(m)
             who == Number(inbox[m].sender)
             reply == NewReply(inbox[m].sender, inbox[m].data, c)
             request == NewReply(who, inbox[m].data, c)
  <1>1. /\ handling # None /\ handling' = None
        /\ inbox' = [inbox EXCEPT ![m].status = "done"]
        /\ contact' = [contact EXCEPT ![c] = IF contact[c] = None THEN NewContact("ghost") ELSE contact[c]]
        /\ outbox' = outbox \/ outbox' = [outbox EXCEPT ![m] = reply]
        /\ asked' = asked \/ (asked' = [asked EXCEPT ![m] = request] /\ outbox' = outbox)
        /\ Wrote({<<"inbox", m>>}, "handling")
        /\ UNCHANGED <<media, retries, gone, found, beside, late>>
    BY DEF CommitHandling, history
  <1>2. /\ m \in Messages /\ inbox \in [Messages -> Inbox] /\ outbox \in [Messages -> Outbox]
        /\ asked \in [Messages -> Asked] /\ contact \in [Contacts -> Contact \cup {None}]
        /\ inbox[m] \in Inbox
    BY <1>1 DEF IInv, TypeOK
  <1>3. /\ inbox[m].status = "queued" /\ outbox[m].status = "absent" /\ asked[m].status = "absent"
        /\ inbox[m].data => inbox[m].sender = "phone"
        /\ inbox[m].sender = "anon" => IsErased
        /\ inbox[m].conv \in {"first", "second"} /\ contact[inbox[m].conv] # None
        /\ ~IsErased => inbox[m].conv = "first"
    BY <1>1, <1>2 DEF IInv, RowsInv, Begun, Replied, Requests, Received, Customer
  <1>4. /\ inbox[m].sender \in {"phone", "anon"}
        /\ c = IF inbox[m].sender = "phone" THEN inbox[m].conv ELSE "stray"
        /\ who = IF inbox[m].sender = "phone" THEN "phone" ELSE "ghost"
    BY <1>2, <1>3, Handled DEF IInv, RowsInv
  <1> HIDE DEF c, who
  <1>5. /\ NewContact("ghost") \in Contact /\ NewContact("ghost").who = "ghost"
        /\ ~NewContact("ghost").blocked /\ NewContact("ghost") # None
    <2>1. /\ NewContact("ghost") \in Contact
          /\ NewContact("ghost").who = "ghost" /\ ~NewContact("ghost").blocked
      BY DEF NewContact, Contact, Identities
    <2> QED  BY <2>1, NoneAssumption
  <1>6. /\ contact' \in [Contacts -> Contact \cup {None}] /\ contact'[c] # None
        /\ \A d \in Contacts : contact[d] # None => contact'[d] = contact[d]
        /\ \A d \in {"first", "second"} : contact'[d] = contact[d]
        /\ contact'["stray"] # contact["stray"] =>
              IsErased /\ contact'["stray"].who = "ghost" /\ ~contact'["stray"].blocked
        /\ IsErased' <=> IsErased
    <2>1. c \in Contacts /\ (contact[c] = None => c = "stray" /\ IsErased)
      BY <1>3, <1>4 DEF Contacts
    <2>2. /\ contact' \in [Contacts -> Contact \cup {None}]
          /\ contact'[c] = IF contact[c] = None THEN NewContact("ghost") ELSE contact[c]
          /\ \A d \in Contacts \ {c} : contact'[d] = contact[d]
      BY <1>1, <1>2, <1>5, <2>1
    <2> QED  BY <1>5, <2>1, <2>2 DEF IsErased, Contacts
  <1>7. /\ inbox' \in [Messages -> Inbox] /\ inbox'[m].status = "done"
        /\ \A n \in Messages : /\ n # m => inbox'[n] = inbox[n]
                               /\ inbox'[n].sender = inbox[n].sender
                               /\ inbox'[n].data = inbox[n].data
                               /\ inbox'[n].conv = inbox[n].conv
                               /\ inbox'[n].status = "absent" <=> inbox[n].status = "absent"
    <2>1. /\ [inbox[m] EXCEPT !.status = "done"] \in Inbox
          /\ inbox' = [inbox EXCEPT ![m] = [inbox[m] EXCEPT !.status = "done"]]
      BY <1>1, <1>2 DEF Inbox
    <2> QED  BY <1>2, <1>3, <2>1 DEF Inbox
  <1>8. /\ reply \in Outbox /\ reply.status = "pending" /\ reply.recipient = inbox[m].sender
        /\ reply.data = inbox[m].data /\ reply.conv = c
    BY <1>2, <1>3, <1>4 DEF Inbox, Outbox, NewReply, Identities, Contacts
  <1>9. /\ request \in Asked /\ request.status = "pending" /\ request.recipient = who
        /\ request.data = inbox[m].data /\ request.conv = c
    BY <1>2, <1>3, <1>4 DEF Inbox, Asked, NewReply, Identities, Contacts
  <1> HIDE DEF reply, request
  <1>10. /\ outbox' \in [Messages -> Outbox] /\ asked' \in [Messages -> Asked]
         /\ \A n \in Messages \ {m} : outbox'[n] = outbox[n] /\ asked'[n] = asked[n]
         /\ \/ outbox'[m] = outbox[m] /\ asked'[m] = asked[m]
            \/ outbox'[m] = reply /\ asked'[m] = asked[m]
            \/ outbox'[m] = outbox[m] /\ asked'[m] = request
    BY <1>1, <1>2, <1>8, <1>9
  <1>11. /\ asking' # None => asking' = asking
         /\ writing' # None => writing' = writing
         /\ sending' # None => sending' = sending
         /\ fetching' # None => fetching' = fetching
         /\ erasing' # None => erasing' = erasing /\ m \notin erasing.inbox
    <2>1. /\ asking' # None => asking' = asking
          /\ writing' # None => writing' = writing
          /\ sending' # None => sending' = sending
          /\ fetching' # None => fetching' = fetching
          /\ erasing' # None => erasing' = erasing
      BY <1>1, Survivors
    <2>2. Wrote({<<"inbox", m>>}, "handling")
      BY <1>1
    <2>3. ASSUME erasing' # None  PROVE m \notin erasing.inbox
      BY <2>2, <2>3, RequestSurvives
    <2> QED  BY <2>1, <2>3
  <1> HIDE DEF m
  <1>12. TypeOK'
    <2>1. RunTypes'
      BY <1>1, <1>11, RunsTyped DEF IInv
    <2> QED  BY <1>1, <1>6, <1>7, <1>10, <2>1 DEF IInv, TypeOK, RunTypes
  <1>13. FilesInv'
    <2>1. /\ erasing # None => erasing.inbox \subseteq Messages
          /\ found.files \subseteq Messages
      BY DEF IInv, TypeOK
    <2> QED  BY <1>1, <1>7, <1>11, <2>1 DEF IInv, FilesInv, FileOK
  <1>14. Customer'
    BY <1>6 DEF IInv, RowsInv, Customer, Contacts
  <1>15. Received'
    BY <1>6, <1>7, <1>3 DEF IInv, RowsInv, Received
  <1>16. Requests'
    <2> SUFFICES ASSUME NEW n \in Messages
                 PROVE  /\ asked'[n].status = "absent" => ~asked'[n].data
                        /\ asked'[n].status # "absent" =>
                             /\ inbox'[n].status = "done"
                             /\ \/ asked'[n].recipient = "phone" /\ asked'[n].conv = inbox'[n].conv
                                \/ /\ asked'[n].recipient = "ghost" /\ ~asked'[n].data
                                   /\ asked'[n].conv = "stray" /\ contact'["stray"] # None
                        /\ asked'[n].status \in {"pending", "processing"} => outbox'[n].status = "absent"
      BY DEF Requests
    <2>1. CASE n # m
      BY <1>6, <1>7, <1>10, <2>1 DEF IInv, RowsInv, Requests, Contacts
    <2>2. CASE n = m
      BY <1>3, <1>4, <1>6, <1>7, <1>8, <1>9, <1>10, <2>2 DEF IInv, RowsInv, Requests
    <2> QED  BY <2>1, <2>2
  <1>17. Replied'
    <2> SUFFICES ASSUME NEW n \in Messages, outbox'[n].status # "absent"
                 PROVE  /\ inbox'[n].status = "done"
                        /\ outbox'[n].data => outbox'[n].recipient = "phone"
                        /\ outbox'[n].recipient = "phone" /\ ~IsErased' => outbox'[n].conv = "first"
      BY DEF Replied
    <2>1. CASE n # m
      BY <1>6, <1>7, <1>10, <2>1 DEF IInv, RowsInv, Replied
    <2>2. CASE n = m
      BY <1>3, <1>4, <1>6, <1>7, <1>8, <1>10, <2>2
    <2> QED  BY <2>1, <2>2
  <1>18. Begun'
    <2>1. /\ asking # None => asking.m \in Messages
          /\ writing # None => writing.m \in Messages
          /\ sending # None => sending.m \in Messages
      BY DEF IInv, TypeOK
    <2>2. asking' # None =>
            /\ asked'[asking'.m].status = "processing"
            /\ asking'.calling => ~contact'[asked'[asking'.m].conv].blocked
      <3>1. asking # None =>
              /\ asked[asking.m].status = "processing" /\ asking.m # m
              /\ asked[asking.m].conv \in Contacts /\ contact[asked[asking.m].conv] # None
        BY <1>3, <2>1 DEF IInv, RowsInv, Begun, Requests, Received, Contacts
      <3> QED  BY <1>6, <1>10, <1>11, <2>1, <3>1 DEF IInv, RowsInv, Begun
    <2>3. writing' # None =>
            /\ inbox'[writing'.m].status = "done"
            /\ asked'[writing'.m].status = "absent" /\ outbox'[writing'.m].status = "absent"
            /\ writing'.who = "phone"
            /\ writing'.moves => ~contact'[inbox'[writing'.m].conv].blocked
      <3>1. writing # None =>
              /\ inbox[writing.m].status = "done" /\ writing.m # m
              /\ inbox[writing.m].conv \in {"first", "second"}
        BY <1>3, <2>1 DEF IInv, RowsInv, Begun, Received
      <3> QED  BY <1>6, <1>7, <1>10, <1>11, <2>1, <3>1 DEF IInv, RowsInv, Begun
    <2>4. sending' # None => outbox'[sending'.m].status # "absent"
      BY <1>8, <1>10, <1>11, <2>1 DEF IInv, RowsInv, Begun
    <2> QED  BY <1>1, <2>2, <2>3, <2>4 DEF Begun
  (* A request of the subject has found the message before the erasure.     *)
  <1>19. FoundAll'
    <2>1. erasing' # None => IsErased
      BY <1>2, <1>3, <1>4, <1>11 DEF IInv, RowsInv, FoundAll
    <2> QED  BY <1>6, <2>1 DEF FoundAll
  <1>20. Erased'
    <2>1. gone \subseteq Messages /\ found.replies \subseteq Messages
      BY DEF IInv, TypeOK
    <2>2. m \notin found.replies
      BY <1>3 DEF IInv, RowsInv, Erased
    <2>3. \A n \in found.replies : outbox'[n] = outbox[n]
      BY <1>10, <2>1, <2>2
    <2>4. m \in gone => inbox[m].sender = "anon"
      BY <1>2, <1>3, <1>4 DEF IInv, RowsInv, Erased, Received, IsErased
    <2>5. ASSUME NEW n \in gone
          PROVE  /\ IsErased
                 /\ inbox'[n].status # "absent" /\ inbox'[n].conv = "first"
                 /\ ~asked'[n].data
                 /\ n \notin beside /\ outbox'[n].status # "absent" => outbox'[n].recipient # "phone"
      <3>1. CASE n # m
        BY <1>7, <1>10, <2>1, <3>1 DEF IInv, RowsInv, Erased
      <3>2. CASE n = m
        BY <1>3, <1>4, <1>7, <1>8, <1>9, <1>10, <2>1, <2>4, <3>2 DEF IInv, RowsInv, Erased
      <3> QED  BY <3>1, <3>2
    <2> QED  BY <1>1, <1>6, <2>3, <2>5 DEF IInv, RowsInv, Erased
  <1> QED  BY <1>12, <1>13, <1>14, <1>15, <1>16, <1>17, <1>18, <1>19, <1>20 DEF IInv, RowsInv

(* The request finds everything, or is lost before.                         *)
LEMMA CommitErasureStep == ASSUME IInv, CommitErasure  PROVE IInv'
  <1> DEFINE erasedContact == [who |-> "anon", blocked |-> TRUE]
             written == Writes("erasing")
  <1>1. /\ erasing # None /\ Owners("anon") = {} /\ erasing' = None
        /\ contact' = [contact EXCEPT ![erasing.contact] = erasedContact]
        /\ inbox' = [n \in Messages |-> IF n \in erasing.inbox THEN InboxErased(inbox[n]) ELSE inbox[n]]
        /\ asked' = [n \in Messages |-> IF n \in erasing.asked THEN AskedErased(asked[n]) ELSE asked[n]]
        /\ outbox' = [n \in Messages |-> IF n \in erasing.outbox THEN Cancelled(outbox[n]) ELSE outbox[n]]
        /\ media' = [n \in Messages |->
                      IF n \in FilesOf(erasing.inbox) THEN Purged(media[n]) ELSE media[n]]
        /\ gone' = Present
        /\ found' = [files |-> found.files \cup erasing.inbox,
                     replies |-> found.replies \cup erasing.outbox]
        /\ Wrote(written, "erasing")
        /\ UNCHANGED <<retries, beside, late>>
    BY DEF CommitErasure
  <1>2. /\ inbox \in [Messages -> Inbox] /\ asked \in [Messages -> Asked]
        /\ outbox \in [Messages -> Outbox]
        /\ media \in [Messages -> Media] /\ contact \in [Contacts -> Contact \cup {None}]
        /\ erasing.inbox \subseteq Messages /\ erasing.asked \subseteq Messages
        /\ erasing.outbox \subseteq Messages
        /\ found \in [files : SUBSET Messages, replies : SUBSET Messages]
    BY <1>1 DEF IInv, TypeOK
  <1>3. ~IsErased
    BY <1>1, PhoneOwner DEF IInv, RowsInv
  <1>4. /\ erasing.contact = "first"
        /\ \A n \in Messages :
             /\ inbox[n].status # "absent" /\ inbox[n].sender = "phone" => n \in erasing.inbox
             /\ n \in erasing.asked <=> asked[n].status # "absent"
             /\ n \in erasing.outbox => outbox[n].status # "absent" /\ outbox[n].recipient = "phone"
             /\ outbox[n].status # "absent" /\ outbox[n].recipient = "phone" =>
                   n \in erasing.outbox \/ n \in beside
        /\ \A n \in erasing.inbox : inbox[n].status # "absent"
    BY <1>1, <1>3 DEF IInv, RowsInv, FoundAll, FilesInv
  (* Before the erasure there is one contact.                               *)
  <1>5. /\ contact["second"] = None /\ contact["stray"] = None
        /\ \A n \in Messages :
             /\ inbox[n].status # "absent" => inbox[n].conv = "first"
             /\ asked[n].status # "absent" =>
                   asked[n].recipient = "phone" /\ asked[n].conv = "first"
             /\ n \in erasing.outbox => outbox[n].conv = "first"
    <2>1. contact["second"] = None /\ contact["stray"] = None
      BY <1>3 DEF IInv, RowsInv, Customer
    <2>2. \A n \in Messages : inbox[n].status # "absent" => inbox[n].conv = "first"
      BY <2>1 DEF IInv, RowsInv, Received
    <2> QED  BY <1>3, <1>4, <2>1, <2>2 DEF IInv, RowsInv, Requests, Replied
  (* The rows after the commit.                                             *)
  <1>6. /\ inbox' \in [Messages -> Inbox]
        /\ \A n \in Messages :
             /\ inbox'[n].status = inbox[n].status /\ inbox'[n].conv = inbox[n].conv
             /\ inbox[n].status # "absent" => inbox'[n].sender = "anon"
             /\ inbox'[n].data => inbox'[n].sender = "phone"
    <2>1. ASSUME NEW n \in Messages
          PROVE  /\ InboxErased(inbox[n]) \in Inbox
                 /\ InboxErased(inbox[n]).sender = "anon" /\ ~InboxErased(inbox[n]).data
                 /\ InboxErased(inbox[n]).status = inbox[n].status
                 /\ InboxErased(inbox[n]).conv = inbox[n].conv
      <3>1. inbox[n] \in Inbox
        BY <1>2
      <3> QED  BY <3>1 DEF InboxErased, Inbox
    <2>2. \A n \in Messages : inbox[n].sender \in {"phone", "anon"}
                              /\ (inbox[n].data => inbox[n].sender = "phone")
      BY <1>2 DEF Inbox, IInv, RowsInv, Received
    <2> QED  BY <1>1, <1>2, <1>4, <2>1, <2>2
  <1>7. /\ asked' \in [Messages -> Asked]
        /\ \A n \in Messages :
             /\ asked'[n].status = asked[n].status /\ asked'[n].recipient = asked[n].recipient
             /\ asked'[n].conv = asked[n].conv /\ ~asked'[n].data
    <2>1. ASSUME NEW n \in Messages
          PROVE  /\ AskedErased(asked[n]) \in Asked /\ AskedErased(asked[n]).status = asked[n].status
                 /\ AskedErased(asked[n]).recipient = asked[n].recipient
                 /\ AskedErased(asked[n]).conv = asked[n].conv /\ ~AskedErased(asked[n]).data
      <3>1. asked[n] \in Asked
        BY <1>2
      <3> QED  BY <3>1, RequestTypes
    <2>2. \A n \in Messages : n \notin erasing.asked => ~asked[n].data
      BY <1>4 DEF IInv, RowsInv, Requests
    <2> QED  BY <1>1, <1>2, <2>1, <2>2
  <1>8. /\ outbox' \in [Messages -> Outbox]
        /\ \A n \in Messages :
             /\ outbox'[n].status = "absent" <=> outbox[n].status = "absent"
             /\ outbox'[n].conv = outbox[n].conv
             /\ n \in erasing.outbox => outbox'[n].recipient = "anon" /\ ~outbox'[n].data
             /\ n \notin erasing.outbox => outbox'[n] = outbox[n]
    <2>1. ASSUME NEW n \in Messages, outbox[n].status # "absent"
          PROVE  /\ Cancelled(outbox[n]) \in Outbox
                 /\ Cancelled(outbox[n]).recipient = "anon" /\ ~Cancelled(outbox[n]).data
                 /\ Cancelled(outbox[n]).status # "absent"
                 /\ Cancelled(outbox[n]).conv = outbox[n].conv
      <3>1. outbox[n] \in Outbox
        BY <1>2
      <3>2. /\ OutboxErased(outbox[n]) \in Outbox
            /\ OutboxErased(outbox[n]).recipient = "anon" /\ ~OutboxErased(outbox[n]).data
            /\ OutboxErased(outbox[n]).status = outbox[n].status
            /\ OutboxErased(outbox[n]).conv = outbox[n].conv
        BY <3>1 DEF OutboxErased, Outbox, Identities
      <3> QED  BY <2>1, <3>2 DEF Cancelled, Outbox
    <2> QED  BY <1>1, <1>2, <1>4, <2>1
  <1>9. /\ media' \in [Messages -> Media]
        /\ \A n \in Messages :
             /\ FileOK(media'[n])
             /\ n \notin erasing.inbox => media'[n] = media[n]
             /\ n \in erasing.inbox => media'[n].status \in {"absent", "expired"}
             /\ media[n].status \in {"absent", "expired"} => media'[n].status = media[n].status
             /\ media'[n].status \in {media[n].status, "expired"}
    <2>1. ASSUME NEW n \in Messages
          PROVE  /\ media[n] \in Media /\ FileOK(media[n])
                 /\ Purged(media[n]) \in Media /\ FileOK(Purged(media[n]))
                 /\ Purged(media[n]).status = "expired"
      <3>1. media[n] \in Media /\ FileOK(media[n])
        BY <1>2 DEF IInv, FilesInv
      <3> QED  BY <3>1, FileRows
    <2>2. \A n \in Messages : n \in FilesOf(erasing.inbox) <=>
                                 n \in erasing.inbox /\ media[n].status # "absent"
      BY DEF FilesOf
    <2> QED  BY <1>1, <2>1, <2>2
  <1>10. erasedContact \in Contact /\ erasedContact # None
         /\ erasedContact.who = "anon" /\ erasedContact.blocked
    <2>1. erasedContact \in Contact
      BY DEF Contact, Identities
    <2> QED  BY <2>1, NoneAssumption
  <1> HIDE DEF erasedContact
  <1>11. /\ contact' \in [Contacts -> Contact \cup {None}] /\ contact'["first"] = erasedContact
         /\ \A d \in Contacts \ {"first"} : contact'[d] = contact[d]
         /\ IsErased'
    BY <1>1, <1>2, <1>4, <1>10 DEF Contacts, IsErased
  <1>12. /\ found' \in [files : SUBSET Messages, replies : SUBSET Messages]
         /\ found'.files = found.files \cup erasing.inbox
         /\ found'.replies = found.replies \cup erasing.outbox
    BY <1>1, <1>2
  (* The runs that are lost.                                                *)
  <1>13. written = {<<"contact", "first">>} \cup ({"inbox", "media"} \X erasing.inbox)
            \cup ({"asked"} \X erasing.asked) \cup ({"outbox"} \X erasing.outbox)
    BY <1>1, <1>4 DEF Writes
  <1> HIDE DEF written
  <1>14. /\ handling' # None => handling' = handling
         /\ asking' # None => asking' = asking /\ ~asking.calling
         /\ writing' # None => writing' = writing /\ ~writing.moves
         /\ sending' # None => sending' = sending
         /\ fetching' # None =>
               fetching' = fetching /\ (fetching.loading => fetching.m \notin erasing.inbox)
    <2>1. /\ handling' # None => handling' = handling
          /\ sending' # None => sending' = sending
          /\ fetching' # None =>
                fetching' = fetching /\ (fetching.loading => <<"media", fetching.m>> \notin written)
          /\ asking' # None =>
                asking' = asking /\ (asking.calling => <<"asked", asking.m>> \notin written)
          /\ writing' # None =>
                /\ writing' = writing
                /\ writing.moves => <<"contact", inbox[writing.m].conv>> \notin written
      BY <1>1, Survivors
    <2>2. asking # None => asking.m \in erasing.asked
      BY <1>4 DEF IInv, TypeOK, RowsInv, Begun
    <2>3. writing # None => inbox[writing.m].conv = "first"
      BY <1>5 DEF IInv, TypeOK, RowsInv, Begun
    <2> QED  BY <1>13, <2>1, <2>2, <2>3
  <1>15. TypeOK'
    <2>1. \A n \in Messages : media'[n].attempts <= MaxAttempts
      BY <1>9 DEF FileOK
    <2>2. RunTypes'
      BY <1>1, <1>14, RunsTyped DEF IInv
    <2>3. gone' \subseteq Messages
      BY <1>1 DEF Present
    <2> QED  BY <1>1, <1>6, <1>7, <1>8, <1>9, <1>11, <1>12, <2>1, <2>2, <2>3
             DEF IInv, TypeOK, RunTypes
  <1>16. FilesInv'
    <2>1. \A n \in Messages : FileOK(media[n])'
      BY <1>9 DEF FileOK
    <2>2. \A n \in Messages : inbox'[n].status = "absent" => media'[n].status = "absent"
      BY <1>6, <1>9 DEF IInv, FilesInv
    <2>3. fetching' # None =>
            /\ media'[fetching'.m].status \in {"processing", "expired"}
            /\ fetching'.loading => media'[fetching'.m].status = "processing"
      <3>1. fetching # None =>
              /\ fetching.m \in Messages
              /\ media[fetching.m].status \in {"processing", "expired"}
              /\ fetching.loading => media[fetching.m].status = "processing"
        BY DEF IInv, TypeOK, FilesInv
      <3> QED  BY <1>9, <1>14, <3>1
    <2>4. \A n \in found'.files :
             inbox'[n].status # "absent" /\ media'[n].status \in {"absent", "expired"}
      <3>1. \A n \in found.files : n \in Messages /\ inbox[n].status # "absent"
                                   /\ media[n].status \in {"absent", "expired"}
        BY <1>2 DEF IInv, FilesInv
      <3> QED  BY <1>2, <1>4, <1>6, <1>9, <1>12, <3>1
    <2> QED  BY <1>1, <2>1, <2>2, <2>3, <2>4 DEF FilesInv
  <1>17. Customer'
    BY <1>5, <1>10, <1>11 DEF Customer, Contacts
  <1>18. Received'
    BY <1>5, <1>6, <1>10, <1>11 DEF Received
  <1>19. Requests'
    BY <1>5, <1>6, <1>7, <1>8 DEF IInv, RowsInv, Requests
  <1>20. Replied'
    BY <1>6, <1>8, <1>11 DEF IInv, RowsInv, Replied
  <1>21. Begun'
    <2>1. /\ handling # None => handling \in Messages
          /\ asking # None => asking.m \in Messages
          /\ writing # None => writing.m \in Messages
          /\ sending # None => sending.m \in Messages
      BY DEF IInv, TypeOK
    <2> QED  BY <1>6, <1>7, <1>8, <1>14, <2>1 DEF IInv, RowsInv, Begun
  <1>22. FoundAll'
    BY <1>1 DEF FoundAll
  <1>23. Erased'
    <2>1. \A n \in gone' :
             /\ inbox'[n].status # "absent" /\ inbox'[n].conv = "first"
             /\ ~asked'[n].data
             /\ n \notin beside' /\ outbox'[n].status # "absent" => outbox'[n].recipient # "phone"
      BY <1>1, <1>4, <1>5, <1>6, <1>7, <1>8 DEF Present
    <2>2. found.replies = {}
      BY <1>3 DEF IInv, RowsInv, Erased
    <2>3. \A n \in found'.replies :
             /\ outbox'[n].status # "absent" /\ outbox'[n].conv = "first"
             /\ outbox'[n].recipient = "anon"
      BY <1>2, <1>4, <1>5, <1>8, <1>12, <2>2
    <2>4. late' = {}
      BY <1>1 DEF IInv, RowsInv, Erased
    <2> QED  BY <1>11, <2>1, <2>3, <2>4 DEF Erased
  <1> QED  BY <1>15, <1>16, <1>17, <1>18, <1>19, <1>20, <1>21, <1>22, <1>23 DEF IInv, RowsInv

-----------------------------------------------------------------------------
LEMMA NextIInv == IInv /\ [Next]_vars => IInv'
  <1> SUFFICES ASSUME IInv, [Next]_vars  PROVE IInv'
    OBVIOUS
  <1>1. CASE UNCHANGED vars
    <2>1. TypeOK'
      BY <1>1 DEF vars, rows, runs, talk, history, IInv, TypeOK
    <2>2. FilesInv'
      BY <1>1 DEF vars, rows, runs, talk, history, IInv, FilesInv, FileOK
    <2>3. RowsInv'
      BY <1>1 DEF vars, rows, runs, talk, history, IInv, RowsInv, Customer, Received, Requests,
                  Replied, Begun, FoundAll, Erased, IsErased
    <2> QED  BY <2>1, <2>2, <2>3 DEF IInv
  <1>2. ASSUME NEW m \in Messages, Receive(m) \/ RetainInbox(m) \/ RetainOutbox(m)  PROVE IInv'
    BY <1>2, ReceiveStep, RetainInboxStep, RetainOutboxStep
  <1>3. ASSUME NEW m \in Messages, HandleMessage(m)  PROVE IInv'
    BY <1>3, BeginRunStep, CommitHandlingStep DEF HandleMessage
  <1>4. ASSUME NEW m \in Messages, AskAI(m) \/ RetainAsked(m)  PROVE IInv'
    <2>1. EndAsk(m) \/ RecoverAsk(m) => Deliver(m) \/ UNCHANGED outbox
      BY DEF EndAsk, RecoverAsk
    <2> QED  BY <1>4, <2>1, RequestStep, DeliverStep DEF AskAI
  <1>5. ASSUME NEW m \in Messages, WriteNote(m)  PROVE IInv'
    BY <1>5, BeginNoteStep, CommitNoteStep DEF WriteNote
  <1>6. ASSUME NEW m \in Messages, SendReply(m)  PROVE IInv'
    BY <1>6, BeginRunStep, ReplyStep DEF SendReply
  <1>7. ASSUME NEW m \in Messages, FetchFile(m) \/ RetryFile(m) \/ PurgeExpired(m)  PROVE IInv'
    BY <1>7, BeginRunStep, FileStep DEF FetchFile
  <1>8. ASSUME Erase  PROVE IInv'
    BY <1>8, BeginErasureStep, CommitErasureStep, LostStep DEF Erase
  <1>9. ASSUME NEW p \in Processes, Crash(p)  PROVE IInv'
    BY <1>9, LostStep
  <1> QED  BY <1>1, <1>2, <1>3, <1>4, <1>5, <1>6, <1>7, <1>8, <1>9 DEF Next

(* Every step of the queues, the people and the requests keeps the          *)
(* invariant.                                                               *)
THEOREM Invariant == Spec => []IInv
  BY InitIInv, NextIInv, PTL DEF Spec

(* TypeOK: every reachable state has the types the module declares, and no  *)
(* download is tried more than max_attempts times.                          *)
THEOREM TypeCorrect == Spec => []TypeOK
  <1>1. IInv => TypeOK
    BY DEF IInv
  <1> QED  BY <1>1, Invariant, PTL

(* FileAccounted: a file is kept exactly while its record says so, and its  *)
(* copy never outlives it (_process_one, _dz23_purge_files).                *)
THEOREM FilesAreAccounted == Spec => []FileAccounted
  <1>1. IInv => FileAccounted
    BY DEF IInv, FilesInv, FileOK, FileAccounted
  <1> QED  BY <1>1, Invariant, PTL

(* NothingKept: an erasure that went through leaves no text, phone or file  *)
(* of the subject, whatever held the rows meanwhile, but in the replies that*)
(* cannot collide with it: those of the recovery of a request to the AI and *)
(* of an attendant (action_anonymize, _deliver_handoff, _send_human).       *)
THEOREM ErasureComplete == Spec => []NothingKept
  <1>1. IInv => NothingKept
    <2> SUFFICES ASSUME IInv  PROVE NothingKept
      OBVIOUS
    <2>1. gone \subseteq Messages /\ found.files \subseteq Messages /\ found.replies \subseteq Messages
      BY DEF IInv, TypeOK
    <2>2. \A m \in gone :
            /\ inbox[m].sender = "anon" /\ ~inbox[m].data
            /\ ~asked[m].data
            /\ m \notin beside /\ outbox[m].status # "absent" =>
                  outbox[m].recipient # "phone" /\ ~outbox[m].data
      <3> SUFFICES ASSUME NEW m \in gone
                   PROVE  /\ inbox[m].sender = "anon" /\ ~inbox[m].data
                          /\ ~asked[m].data
                          /\ m \notin beside /\ outbox[m].status # "absent" =>
                                outbox[m].recipient # "phone" /\ ~outbox[m].data
        OBVIOUS
      <3>1. m \in Messages /\ inbox[m] \in Inbox
        BY <2>1 DEF IInv, TypeOK
      <3>2. inbox[m].sender \in {"phone", "anon"}
        BY <3>1 DEF Inbox
      <3>3. inbox[m].sender # "phone"
        BY <3>1 DEF IInv, RowsInv, Received, Erased, IsErased
      <3> QED  BY <3>1, <3>2, <3>3 DEF IInv, RowsInv, Received, Replied, Erased
    <2>3. \A m \in found.replies : outbox[m].recipient = "anon" /\ ~outbox[m].data
      BY <2>1 DEF IInv, RowsInv, Replied, Erased
    <2>4. \A m \in found.files : ~media[m].file /\ ~media[m].copy
      BY <2>1 DEF IInv, FilesInv, FileOK
    <2> QED  BY <2>2, <2>3, <2>4 DEF NothingKept
  <1> QED  BY <1>1, Invariant, PTL

(* NotSentAfterErasure: no call begins for a reply that an erasure found    *)
(* (the block that action_anonymize sets, and _process_one).                *)
THEOREM NothingSentLate == Spec => []NotSentAfterErasure
  <1>1. IInv => NotSentAfterErasure
    BY DEF IInv, RowsInv, Erased, NotSentAfterErasure
  <1> QED  BY <1>1, Invariant, PTL
=============================================================================
