------------------------------ MODULE Requests ------------------------------
(***************************************************************************)
(* What the main thread does with a request, and the two files in which    *)
(* the schedule survives a restart: process_crud() of wrp_interface.c,     *)
(* process_data.c, verify_md5_signatures() of aker_md5.c and               *)
(* import_existing_schedule() of main.c.                                   *)
(*                                                                         *)
(* The process may die at any moment and is started again.  Calls of the   *)
(* file system, those that read as well as those that write, fail as       *)
(* Faults says.  Of process_schedule_data() only the schedule in force is  *)
(* kept; Scheduler has the rest.  A file holds nothing, all of a payload,  *)
(* or a part of one, which decode_schedule() may accept, as it ignores a   *)
(* map that is cut off after a whole one; the file of the signature holds  *)
(* the digest of a payload, which stands for the payload, or a part of it. *)
(***************************************************************************)
EXTENDS Integers

CONSTANTS
    Schedules,      \* the payloads decode_schedule() accepts
    Malformed,      \* a payload it refuses
    Parts,          \* the parts of a payload, from its start on, that it accepts
    None,           \* no schedule
    NoFile, Empty, Torn,    \* other contents of a file; Torn is any other part
    Status,         \* the text of a status, as the payload of a response
    Blocked,        \* what pack_now_msg() makes of the current block list
    Faults,         \* the calls that may fail
    MaxRequests, MaxCrashes     \* bounds

ASSUME RequestsAssumption ==
    /\ Faults \subseteq {"open", "write", "short", "flush", "remove", "read"}
    /\ Parts \in [Schedules -> SUBSET Schedules]
    /\ \A s \in Schedules : \A part \in Parts[s] : Parts[part] \subseteq Parts[s]
    /\ MaxRequests \in Nat /\ MaxCrashes \in Nat
    /\ Schedules \cap {Malformed, None, NoFile, Empty, Torn} = {}

VARIABLES
    pc,             \* of the main thread
    data_file, md5_file,
    in_force,       \* current_schedule
    md5_err_count,
    request,        \* the request in progress
    rv,             \* of process_update()
    response,
    acknowledged,   \* history: what the last successful request put in force
    unacknowledged, \* history: what was put in force after that
    before,         \* history: the state when the request came
    unnoticed,      \* history: a call of the file system has failed whose
                    \* result nobody looked at
    misread,        \* history: so has a read of the start that put in force
                    \* what is in force
    requests, crashes

files   == <<data_file, md5_file>>
history == <<acknowledged, unacknowledged, before, unnoticed, misread>>
bounds  == <<requests, crashes>>
vars    == <<pc, files, in_force, md5_err_count, request, rv, response, history, bounds>>

Types == {"CREATE", "RETRIEVE", "UPDATE", "DELETE", "OTHER"}

(* "none" is every other endpoint or service, and their absence.           *)
Endpoints == {"schedule", "now", "none"}

Messages == [type : Types, endpoint : Endpoints, payload : Schedules \cup {Malformed, Empty}]

NoResponse == [status |-> 0, payload |-> None]

StateNow == [schedule |-> in_force, data |-> data_file, md5 |-> md5_file]

Init ==
    /\ pc = "verify"
    /\ data_file = NoFile /\ md5_file = NoFile
    /\ in_force = None
    /\ md5_err_count = 0
    /\ request = [type |-> "OTHER", endpoint |-> "none", payload |-> Empty]
    /\ rv = 0
    /\ response = NoResponse
    /\ unnoticed = FALSE /\ misread = FALSE
    /\ acknowledged = None
    /\ unacknowledged = {}
    /\ before = StateNow
    /\ requests = 0 /\ crashes = 0

Goto(label) == pc' = label

-----------------------------------------------------------------------------
(* The start of the process: import_existing_schedule().                   *)

HasContent(file) == file \notin {NoFile, Empty}

Content(file) == IF HasContent(file) THEN file ELSE Empty

(* What a call that gets no further than a part of a payload leaves.       *)
PartsOf(payload) ==
    IF payload \in Schedules THEN Parts[payload] \cup {Torn} ELSE {Torn}

(* read_file_from_disk() returns nothing if it cannot open the file or     *)
(* learn its size, and what it has got if fread() ends early.              *)
Reads(file, parts) ==
    {Content(file)} \cup {c \in parts \cup {Empty} : "read" \in Faults /\ HasContent(file)}

DataReads == Reads(data_file, PartsOf(data_file))
Md5Reads  == Reads(md5_file, {Torn})

(* Mutation of SignatureMatches: nothing to read is no error.              *)
SignatureMatchesIfAny(data, md5) ==
    data \in Schedules => md5 = data

(* verify_md5_signatures() returns 0.  A signature that is too short is    *)
(* compared with whatever follows it in memory, which in a process that    *)
(* has just been started is not the rest of the digest.                    *)
SignatureMatches(data, md5) ==
    data \in Schedules /\ md5 = data

(* A read that fails here is an error as well, unless it ends early with a *)
(* part that has this very signature.                                      *)
Verify ==
    /\ pc = "verify"
    /\ \E data \in DataReads, md5 \in Md5Reads :
          IF SignatureMatches(data, md5)
          THEN misread' = (data # Content(data_file)) /\ UNCHANGED md5_err_count
          ELSE md5_err_count' = md5_err_count + 1 /\ UNCHANGED misread
    /\ Goto("import")
    /\ UNCHANGED <<files, in_force, request, rv, response, acknowledged, unacknowledged, before,
                   unnoticed, bounds>>

(* The file is read once more, and imported whether or not its signature   *)
(* matched.                                                                *)
Import ==
    /\ pc = "import"
    /\ \E data \in DataReads :
          /\ in_force' = IF data \in Schedules THEN data ELSE in_force
          /\ misread' = (misread \/ data # Content(data_file))
    /\ Goto("idle")
    /\ UNCHANGED <<files, md5_err_count, request, rv, response, acknowledged, unacknowledged, before,
                   unnoticed, bounds>>

-----------------------------------------------------------------------------
(* A request.                                                              *)

Respond(status, payload) == response' = [status |-> status, payload |-> payload] /\ Goto("send")

Receive(m) ==
    /\ pc = "idle"
    /\ requests < MaxRequests
    /\ requests' = requests + 1
    /\ request' = m
    /\ before' = StateNow
    /\ Goto("crud")
    /\ UNCHANGED <<files, in_force, md5_err_count, rv, response, acknowledged,
                   unacknowledged, unnoticed, misread, crashes>>

(* The switch of process_crud(), up to the call that does the work.        *)
IsUpdate ==
    /\ request.endpoint = "schedule"
    /\ request.type = "UPDATE" \/ (request.type = "CREATE" /\ data_file = NoFile)

IsRetrieve == request.type = "RETRIEVE"

IsModification == request.type \in {"CREATE", "UPDATE", "DELETE"}

Unhandled ==
    /\ pc = "crud"
    /\ request.type = "OTHER"
    /\ Goto("idle")
    /\ UNCHANGED <<files, in_force, md5_err_count, request, rv, response, history, bounds>>

Reject ==
    /\ pc = "crud"
    /\ \/ /\ request.type # "OTHER" /\ request.endpoint = "none"
          /\ Respond(400, Status)
       \/ /\ IsModification /\ request.endpoint = "now"
          /\ Respond(405, Status)
       \/ /\ request.type = "CREATE" /\ request.endpoint = "schedule" /\ ~IsUpdate
          /\ Respond(409, Status)
    /\ UNCHANGED <<files, in_force, md5_err_count, request, rv, history, bounds>>

(* Mutation of Retrieve: an empty file is a schedule.                      *)
RetrieveAny ==
    /\ pc = "crud"
    /\ IsRetrieve
    /\ \/ request.endpoint = "schedule" /\ \E data \in DataReads : Respond(200, data)
       \/ request.endpoint = "now" /\ Respond(200, Blocked)
    /\ UNCHANGED <<files, in_force, md5_err_count, request, rv, history, bounds>>

Retrieve ==
    /\ pc = "crud"
    /\ IsRetrieve
    /\ \/ /\ request.endpoint = "schedule"
          /\ \E data \in DataReads :
                IF HasContent(data) THEN Respond(200, data) ELSE Respond(404, None)
       \/ request.endpoint = "now" /\ Respond(200, Blocked)
    /\ UNCHANGED <<files, in_force, md5_err_count, request, rv, history, bounds>>

(* Mutation of ProcessUpdate: the files are written in any case.           *)
ProcessUpdateAnyway ==
    /\ pc = "crud"
    /\ IsUpdate
    /\ in_force' = IF request.payload \in Schedules THEN request.payload ELSE in_force
    /\ unacknowledged' = IF request.payload \in Schedules
                         THEN unacknowledged \cup {request.payload} ELSE unacknowledged
    /\ rv' = 0
    /\ misread' = FALSE
    /\ Goto("open_data")
    /\ UNCHANGED <<files, md5_err_count, request, response, acknowledged, before, unnoticed, bounds>>

(* process_update() up to the files: the schedule is in force first.       *)
ProcessUpdate ==
    /\ pc = "crud"
    /\ IsUpdate
    /\ \/ /\ request.payload \in Schedules
          /\ in_force' = request.payload
          /\ unacknowledged' = unacknowledged \cup {request.payload}
          /\ misread' = FALSE
          /\ rv' = 0
          /\ Goto("open_data")
       \/ /\ request.payload \notin Schedules
          /\ rv' = IF request.payload = Empty THEN -3 ELSE -2
          /\ Goto("reply")
          /\ UNCHANGED <<in_force, unacknowledged, misread>>
    /\ UNCHANGED <<files, md5_err_count, request, response, acknowledged, before, unnoticed, bounds>>

(* fopen(filename, "wb") truncates the file.                               *)
OpenData ==
    /\ pc = "open_data"
    /\ \/ data_file' = Empty /\ Goto("write_data")
       \/ "open" \in Faults /\ UNCHANGED data_file /\ Goto("open_md5")
    /\ UNCHANGED <<md5_file, in_force, md5_err_count, request, rv, response, history, bounds>>

(* fwrite() is compared with the size of the payload; that fclose() may    *)
(* fail to bring the content to the file is not looked at.                 *)
WriteData ==
    /\ pc = "write_data"
    /\ \/ data_file' = request.payload /\ rv' = rv + 1 /\ UNCHANGED unnoticed
       \/ "write" \in Faults /\ data_file' = Empty /\ UNCHANGED <<rv, unnoticed>>
       \/ "short" \in Faults /\ data_file' \in PartsOf(request.payload) /\ UNCHANGED <<rv, unnoticed>>
       \/ /\ "flush" \in Faults /\ data_file' \in PartsOf(request.payload) \cup {Empty}
          /\ rv' = rv + 1 /\ unnoticed' = TRUE
    /\ Goto("open_md5")
    /\ UNCHANGED <<md5_file, in_force, md5_err_count, request, response, acknowledged,
                   unacknowledged, before, misread, bounds>>

OpenMd5 ==
    /\ pc = "open_md5"
    /\ \/ md5_file' = Empty /\ Goto("write_md5")
       \/ "open" \in Faults /\ UNCHANGED md5_file /\ Goto("reply")
    /\ UNCHANGED <<data_file, in_force, md5_err_count, request, rv, response, history, bounds>>

(* Any fwrite() that writes at least one byte counts.                      *)
WriteMd5 ==
    /\ pc = "write_md5"
    /\ \/ md5_file' = request.payload /\ rv' = rv + 2 /\ UNCHANGED unnoticed
       \/ "write" \in Faults /\ md5_file' = Empty /\ UNCHANGED <<rv, unnoticed>>
       \/ "short" \in Faults /\ md5_file' = Torn /\ rv' = rv + 2 /\ unnoticed' = TRUE
       \/ "flush" \in Faults /\ md5_file' \in {Empty, Torn} /\ rv' = rv + 2 /\ unnoticed' = TRUE
    /\ Goto("reply")
    /\ UNCHANGED <<data_file, in_force, md5_err_count, request, response, acknowledged,
                   unacknowledged, before, misread, bounds>>

(* Mutation of IsSuccess: one file is enough.                              *)
IsHalfSuccess == rv > 0

(* Both files were written.                                                *)
IsSuccess == rv = 3

Reply ==
    /\ pc = "reply"
    /\ IF IsSuccess
       THEN /\ Respond(201, Status)
            /\ acknowledged' = request.payload
            /\ unacknowledged' = {}
       ELSE /\ Respond(IF request.type = "CREATE" THEN 533 ELSE 534, Status)
            /\ UNCHANGED <<acknowledged, unacknowledged>>
    /\ UNCHANGED <<files, in_force, md5_err_count, request, rv, before, unnoticed, misread, bounds>>

(* Mutation of ProcessDelete: only the files are deleted.                  *)
ProcessDeleteFiles ==
    /\ pc = "crud"
    /\ request.type = "DELETE" /\ request.endpoint = "schedule"
    /\ unacknowledged' = unacknowledged \cup {None}
    /\ Goto("remove_data")
    /\ misread' = FALSE
    /\ UNCHANGED <<files, in_force, md5_err_count, request, rv, response, acknowledged, before,
                   unnoticed, bounds>>

(* process_delete(): process_schedule_data() without data cannot fail.     *)
ProcessDelete ==
    /\ pc = "crud"
    /\ request.type = "DELETE" /\ request.endpoint = "schedule"
    /\ in_force' = None /\ misread' = FALSE
    /\ unacknowledged' = unacknowledged \cup {None}
    /\ Goto("remove_data")
    /\ UNCHANGED <<files, md5_err_count, request, rv, response, acknowledged, before, unnoticed, bounds>>

(* The result of remove() is not looked at.                                *)
Remove(file, after) ==
    \/ after = NoFile /\ UNCHANGED unnoticed
    \/ "remove" \in Faults /\ file # NoFile /\ after = file /\ unnoticed' = TRUE

RemoveData ==
    /\ pc = "remove_data"
    /\ data_file' \in {data_file, NoFile}
    /\ Remove(data_file, data_file')
    /\ Goto("remove_md5")
    /\ UNCHANGED <<md5_file, in_force, md5_err_count, request, rv, response, acknowledged,
                   unacknowledged, before, misread, bounds>>

RemoveMd5 ==
    /\ pc = "remove_md5"
    /\ md5_file' \in {md5_file, NoFile}
    /\ Remove(md5_file, md5_file')
    /\ Respond(200, Status)
    /\ acknowledged' = None
    /\ unacknowledged' = {}
    /\ UNCHANGED <<data_file, in_force, md5_err_count, request, rv, before, misread, bounds>>

(* libparodus_send(); cleanup_wrp() frees the payload of a response to     *)
(* RETRIEVE, and that of the others is leaked.                             *)
Send ==
    /\ pc = "send"
    /\ response' = NoResponse
    /\ Goto("idle")
    /\ UNCHANGED <<files, in_force, md5_err_count, request, rv, history, bounds>>

-----------------------------------------------------------------------------
(* The process dies; an open file may have got a part of its content, or   *)
(* all of it.  It starts again with what the files hold.                   *)
Crash ==
    /\ crashes < MaxCrashes
    /\ crashes' = crashes + 1
    /\ data_file' \in {data_file}
                      \cup {c \in PartsOf(request.payload) \cup {request.payload} : pc = "write_data"}
    /\ md5_file' \in {md5_file} \cup {c \in {Torn, request.payload} : pc = "write_md5"}
    /\ in_force' = None
    /\ md5_err_count' = 0
    /\ misread' = FALSE
    /\ rv' = 0
    /\ response' = NoResponse
    /\ Goto("verify")
    /\ UNCHANGED <<request, acknowledged, unacknowledged, before, unnoticed, requests>>

Next ==
    \/ Verify \/ Import
    \/ \E m \in Messages : Receive(m)
    \/ Unhandled \/ Reject \/ Retrieve
    \/ ProcessUpdate \/ OpenData \/ WriteData \/ OpenMd5 \/ WriteMd5 \/ Reply
    \/ ProcessDelete \/ RemoveData \/ RemoveMd5
    \/ Send
    \/ Crash

Spec == Init /\ [][Next]_vars

-----------------------------------------------------------------------------
(* Properties.                                                             *)

Contents == Schedules \cup {NoFile, Empty, Torn}

Refusals == {400, 405, 409, 533, 534}

(* The type of every variable.  A response with status 200 to a RETRIEVE   *)
(* has content, and one with 404 has none.                                 *)
TypeOK ==
    /\ pc \in {"verify", "import", "idle", "crud", "open_data", "write_data", "open_md5",
               "write_md5", "reply", "remove_data", "remove_md5", "send"}
    /\ data_file \in Contents /\ md5_file \in Contents
    /\ in_force \in Schedules \cup {None}
    /\ md5_err_count \in {0, 1}
    /\ request \in Messages
    /\ rv \in {-3, -2, 0, 1, 2, 3}
    /\ \/ response \in [status : {200}, payload : Schedules \cup {Torn, Blocked, Status}]
       \/ response \in [status : {201} \cup Refusals, payload : {Status}]
       \/ response \in [status : {0, 404}, payload : {None}]
    /\ unnoticed \in BOOLEAN /\ misread \in BOOLEAN
    /\ acknowledged \in Schedules \cup {None}
    /\ unacknowledged \subseteq Schedules \cup {None}
    /\ before \in [schedule : Schedules \cup {None}, data : Contents, md5 : Contents]
    /\ requests \in 0 .. MaxRequests /\ crashes \in 0 .. MaxCrashes

FileOf(schedule) == IF schedule = None THEN NoFile ELSE schedule

(* What may be left of some schedules: any of them, a part, or nothing.    *)
Remains(schedules) ==
    {None} \cup schedules \cup UNION {Parts[s] : s \in schedules \cap Schedules}

Sent == {acknowledged} \cup unacknowledged

(* Between two requests, and after any number of restarts, the device      *)
(* does and has on disk what it last reported to be done, unless a later   *)
(* request was cut short or failed: 201 is sent only when memory and both  *)
(* files have the schedule (process_update() with rv 3), 200 for a DELETE  *)
(* only when none has.  Failures that the code has no eyes for - fclose(), *)
(* a short signature, remove() - are excepted.  A start that cannot read   *)
(* the files may put less in force, but leaves them as they are, so that   *)
(* the next start finds what was reported.                                 *)
AcknowledgedSurvives ==
    pc = "idle" /\ unacknowledged = {} /\ ~unnoticed =>
        /\ in_force = acknowledged \/ (misread /\ in_force \in Remains({acknowledged}))
        /\ data_file = FileOf(acknowledged)
        /\ md5_file = FileOf(acknowledged)

(* What is in force is the schedule that was last reported to be, or one   *)
(* that was sent later.  If it is nothing or a part of one of them, since  *)
(* a restart found the file torn, import_existing_schedule() has counted   *)
(* an error - or could not read the file: a read that fails after the      *)
(* signature was verified is the one way to lose a schedule in silence.    *)
(* The exception is a file that remove() left behind.                      *)
NothingIsLostSilently ==
    pc = "idle" =>
        \/ in_force \in Sent
        \/ in_force \in Remains(Sent) /\ (md5_err_count = 1 \/ misread)
        \/ /\ acknowledged = None /\ unnoticed
           /\ in_force = data_file \/ (misread /\ in_force \in Remains({data_file}))

(* A payload that does not decode, a CREATE where there is a file, a       *)
(* request for "now" or for nothing that exists: whatever the code does    *)
(* before it finds out, memory and both files are what they were.          *)
RefusalsChangeNothing ==
    /\ pc = "send"
    /\ \/ request.payload \notin Schedules /\ request.type # "DELETE"
       \/ request.type = "CREATE" /\ before.data # NoFile
       \/ request.endpoint # "schedule"
       \/ IsRetrieve
    => StateNow = before

-----------------------------------------------------------------------------
(* The requests, the two files and the import at start implement Store:    *)
(* only what is in force is acknowledged, and no step but a request and a  *)
(* restart changes what is in force.                                       *)
Abstract == INSTANCE Store WITH
    Values <- Schedules,
    Nothing <- None,
    Pieces <- Parts,
    up <- pc \notin {"verify", "import"},
    current <- in_force,
    promised <- acknowledged,
    tentative <- unacknowledged,
    alarm <- md5_err_count > 0,
    blind <- unnoticed,
    misled <- misread

ImplementsStore == Abstract!Spec

-----------------------------------------------------------------------------
(* What the comments and texts of the source say and the code does not do; *)
(* the run requests_conflict ends in a counterexample.                     *)

(* "Schedule already present" (wrp_interface.c).                           *)
ConflictMeansPresent ==
    pc = "send" /\ response.status = 409 => in_force # None
=============================================================================
