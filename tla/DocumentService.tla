-------------------------- MODULE DocumentService --------------------------
(* document-service: a row per document, and its object in S3, which clients  *)
(* put there themselves through a URL that works for some time.  outside has  *)
(* a pair for every URL and every object; an object is "late" when it was put *)
(* after a deletion had come past the object.                                 *)
EXTENDS Rows

Documents == [owner : Customers]

Request(r) == Routes(r, {"upload", "list"}, {"download", "delete"})

Of(kind, i) == <<kind, i>>
Objects(i) == outside \cap {Of("object", i), Of("late", i)}

\* The row first, then the URL.
RequestUpload(r) ==
    \/ /\ At(r, "upload")
       /\ \E i \in FreshIds \ {x[2] : x \in outside} :
             /\ rows' = Put(i, [owner |-> User(r)])
             /\ call' = [call EXCEPT ![r].pc = "presign", ![r].key = i]
       /\ OnlyRows
    \/ /\ At(r, "presign")
       /\ outside' = outside \cup {Of("url", Key(r))}
       /\ Answer(r, {[owner |-> User(r)]})
       /\ UNCHANGED <<service, rows>>

DownloadURL(r) == At(r, "download") /\ GetOwn(r)

\* Bug variant of DeleteOwned: the row first, then the object.
DeleteRowFirst(r) ==
    \/ At(r, "delete") /\ LoadOwn(r, Anyone, Unchanged, "remove row")
    \/ /\ At(r, "remove row")
       /\ rows' = [k \in DOMAIN rows \ {Key(r)} |-> rows[k]]
       /\ Goto(r, "remove object", None)
       /\ OnlyRows
    \/ /\ At(r, "remove object")
       /\ outside' = outside \ Objects(Key(r))
       /\ Answer(r, {})
       /\ UNCHANGED <<service, rows>>

\* The object first, then the row.
DeleteOwned(r) ==
    \/ At(r, "delete") /\ LoadOwn(r, Anyone, Unchanged, "remove object")
    \/ /\ At(r, "remove object")
       /\ outside' = outside \ Objects(Key(r))
       /\ Goto(r, "remove row", None)
       /\ UNCHANGED <<service, rows>>
    \/ At(r, "remove row") /\ Delete(r)

\* The client puts the object, and again; the URL expires.
Client ==
    \E i \in Ids :
        /\ Of("url", i) \in outside
        /\ \/ outside' = outside \ {Of("url", i)}
           \/ outside' = outside \cup
                 {IF Exists(i) /\ \A r \in Requests : ~(At(r, "remove row") /\ Key(r) = i)
                  THEN Of("object", i) ELSE Of("late", i)}
        /\ UNCHANGED <<service, rows, call>>

\* Every call of the repository and of the storage.
Repository(r) ==
    \/ RequestUpload(r) \/ DownloadURL(r) \/ DeleteOwned(r)
    \/ At(r, "list") /\ SelectOwn(r)

Next(r) == Request(r) \/ Repository(r) \/ Client
=============================================================================
