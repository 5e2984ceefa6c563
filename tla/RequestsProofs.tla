---------------------------- MODULE RequestsProofs --------------------------
(***************************************************************************)
(* Proofs about Requests, for every set of schedules, every set of faults  *)
(* and any number of requests and crashes.                                 *)
(***************************************************************************)
EXTENDS Requests, TLAPS

-----------------------------------------------------------------------------
(* The inductive invariant.                                                *)

(* From the hand-over of the schedule to the response.                     *)
IsUpdating == pc \in {"open_data", "write_data", "open_md5", "write_md5"} \/ (pc = "reply" /\ rv >= 0)

IsDeleting == pc \in {"remove_data", "remove_md5"}

IsStarting == pc \in {"verify", "import"}

(* During an update its schedule is in force and not yet acknowledged, and *)
(* the request is none of those that are refused.                          *)
UpdateInv ==
    IsUpdating =>
        /\ request.payload \in Schedules /\ request.payload \in unacknowledged
        /\ in_force = request.payload
        /\ request.endpoint = "schedule" /\ request.type \in {"CREATE", "UPDATE"}
        /\ request.type = "CREATE" => before.data = NoFile

(* What rv says of the files is true, as far as the code has looked.       *)
DataIsWritten ==
    data_file = request.payload
    \/ (unnoticed /\ data_file \in Parts[request.payload] \cup {Torn, Empty})

Md5IsWritten ==
    md5_file = request.payload \/ (unnoticed /\ md5_file \in {Torn, Empty})

ResultInv ==
    /\ pc \in {"open_data", "write_data"} => rv = 0
    /\ pc \in {"open_md5", "write_md5"} => rv \in {0, 1}
    /\ pc = "reply" /\ rv < 0 => request.payload \notin Schedules /\ StateNow = before
    /\ pc \in {"open_md5", "write_md5", "reply"} /\ rv \in {1, 3} => DataIsWritten
    /\ pc = "reply" /\ rv \in {2, 3} => Md5IsWritten

DeleteInv ==
    IsDeleting =>
        /\ in_force = None /\ None \in unacknowledged
        /\ request.endpoint = "schedule" /\ request.type = "DELETE"
        /\ pc = "remove_md5" => data_file = NoFile \/ unnoticed

IsForgotten == acknowledged = None /\ unnoticed

(* A start whose file has no schedule, or only a part of one, has counted  *)
(* an error, or did not see what the file has.                             *)
StartInv ==
    /\ IsStarting => in_force = None
    /\ pc = "verify" => md5_err_count = 0 /\ ~misread
    /\ pc = "import" =>
           \/ data_file \in Schedules /\ (data_file \in Sent \/ IsForgotten)
           \/ md5_err_count = 1
           \/ misread

(* The files hold what was acknowledged or came after it, or the data file *)
(* a part of that.                                                         *)
FilesInv ==
    /\ data_file \in Schedules => data_file \in Remains(Sent) \/ IsForgotten
    /\ md5_file \in Schedules => md5_file \in Sent \/ IsForgotten
    /\ unacknowledged = {} /\ ~unnoticed =>
           data_file = FileOf(acknowledged) /\ md5_file = FileOf(acknowledged)

(* So does the memory, once the start is over.                             *)
MemoryInv ==
    ~IsStarting =>
        /\ \/ in_force \in Sent
           \/ in_force \in Remains(Sent) /\ (md5_err_count = 1 \/ misread)
           \/ IsForgotten /\ (in_force = data_file \/ (misread /\ in_force \in Remains({data_file})))
        /\ unacknowledged = {} /\ ~unnoticed =>
               in_force = acknowledged \/ (misread /\ in_force \in Remains({acknowledged}))

IInv ==
    /\ TypeOK
    /\ UpdateInv /\ ResultInv /\ DeleteInv /\ StartInv /\ FilesInv /\ MemoryInv
    /\ pc = "crud" => StateNow = before
    /\ RefusalsChangeNothing
-----------------------------------------------------------------------------
(* What read_file_from_disk() brings is the file, a part of it, or nothing.*)
LEMMA DataIsRead ==
    ASSUME data_file \in Contents, NEW data \in DataReads
    PROVE  /\ data \in Schedules \cup {Torn, Empty}
           /\ data \in Schedules =>
                  \/ data = data_file /\ data = Content(data_file)
                  \/ data_file \in Schedules /\ data \in Parts[data_file]
           /\ data \notin Schedules /\ data_file \in Schedules => data # Content(data_file)
BY RequestsAssumption DEF DataReads, Reads, PartsOf, Content, HasContent, Contents

LEMMA Md5IsRead ==
    ASSUME NEW md5 \in Md5Reads, md5 \in Schedules
    PROVE  md5 = md5_file
BY RequestsAssumption DEF Md5Reads, Reads, Content, HasContent

LEMMA PartsOfType ==
    ASSUME NEW payload \in Schedules
    PROVE  PartsOf(payload) = Parts[payload] \cup {Torn} /\ Parts[payload] \subseteq Schedules
BY RequestsAssumption DEF PartsOf

(* A part of what remains of some schedules remains of them.               *)
LEMMA PartsRemain ==
    ASSUME NEW sent \in SUBSET (Schedules \cup {None}), NEW s \in Schedules, NEW part \in Parts[s],
           s \in Remains(sent)
    PROVE  part \in Remains(sent)
<1>1. None \notin Schedules
  BY RequestsAssumption
<1>2. CASE s \in sent
  BY <1>2 DEF Remains
<1>3. ASSUME NEW w \in sent \cap Schedules, s \in Parts[w]
      PROVE  part \in Remains(sent)
  BY <1>3, RequestsAssumption DEF Remains
<1> QED
  BY <1>1, <1>2, <1>3 DEF Remains

LEMMA RemainsHas ==
    ASSUME NEW sent, NEW s \in sent \cap Schedules, NEW c \in {s} \cup Parts[s]
    PROVE  c \in Remains(sent)
BY DEF Remains

LEMMA RemainsGrow ==
    ASSUME NEW some, NEW more, some \subseteq more
    PROVE  Remains(some) \subseteq Remains(more)
BY DEF Remains

LEMMA InitIInv == Init => IInv
<1> SUFFICES ASSUME Init
             PROVE  IInv
  OBVIOUS
<1> USE RequestsAssumption DEF Init, files, NoResponse
<1>1. TypeOK
  <2>1. unnoticed \in BOOLEAN /\ misread \in BOOLEAN
    BY Zenon
  <2> QED
    BY <2>1 DEF TypeOK, Messages, Types, Endpoints, Contents, StateNow
<1>2. UpdateInv /\ ResultInv /\ DeleteInv /\ StartInv /\ FilesInv /\ MemoryInv
  BY DEF UpdateInv, IsUpdating, ResultInv, DeleteInv, IsDeleting, StartInv, IsStarting,
         FilesInv, FileOf, MemoryInv, Sent
<1>3. pc # "crud" /\ RefusalsChangeNothing
  BY DEF RefusalsChangeNothing
<1> QED
  BY <1>1, <1>2, <1>3 DEF IInv

LEMMA NextTypeOK ==
    ASSUME IInv, [Next]_vars
    PROVE  TypeOK'
<1> USE RequestsAssumption DEF IInv, TypeOK, files, history, bounds, Goto
<1>1. CASE Verify
  <2>1. misread' \in BOOLEAN
    BY <1>1, Zenon DEF Verify
  <2>2. md5_err_count' \in {0, 1}
    BY <1>1 DEF Verify, StartInv, IsStarting
  <2> QED
    BY <1>1, <2>1, <2>2 DEF Verify
<1>2. CASE Import
  <2>1. misread' \in BOOLEAN
    BY <1>2, Zenon DEF Import
  <2>2. in_force' \in Schedules \cup {None}
    BY <1>2, DataIsRead DEF Import
  <2> QED
    BY <1>2, <2>1, <2>2 DEF Import
<1>3. ASSUME NEW m \in Messages, Receive(m)
      PROVE  TypeOK'
  BY <1>3 DEF Receive, StateNow, Messages
<1>4. CASE Unhandled
  BY <1>4 DEF Unhandled
<1>5. CASE Reject
  BY <1>5 DEF Reject, Respond, IsUpdate, IsModification, Refusals
<1>6. CASE Retrieve
  <2>1. CASE request.endpoint = "now"
    BY <1>6, <2>1 DEF Retrieve, Respond, IsRetrieve
  <2>2. CASE request.endpoint = "schedule"
    <3>1. PICK data \in DataReads :
              IF HasContent(data) THEN Respond(200, data) ELSE Respond(404, None)
      BY <1>6, <2>2 DEF Retrieve
    <3>2. HasContent(data) => data \in Schedules \cup {Torn}
      BY DataIsRead DEF HasContent
    <3> QED
      BY <1>6, <3>1, <3>2 DEF Retrieve, Respond
  <2> QED
    BY <1>6, <2>1, <2>2 DEF Retrieve
<1>7. CASE ProcessUpdate
  <2>1. misread' \in BOOLEAN
    BY <1>7, Zenon DEF ProcessUpdate
  <2> QED
    BY <1>7, <2>1 DEF ProcessUpdate, IsUpdate
<1>8. CASE OpenData
  BY <1>8 DEF OpenData, Contents
<1>9. CASE WriteData
  <2>1. unnoticed' \in BOOLEAN
    BY <1>9, Zenon DEF WriteData
  <2>2. data_file' \in Contents
    BY <1>9, PartsOfType DEF WriteData, UpdateInv, IsUpdating, Contents
  <2>3. rv' \in {0, 1}
    BY <1>9 DEF WriteData, ResultInv
  <2> QED
    BY <1>9, <2>1, <2>2, <2>3 DEF WriteData
<1>10. CASE OpenMd5
  BY <1>10 DEF OpenMd5, Contents
<1>11. CASE WriteMd5
  <2>1. unnoticed' \in BOOLEAN
    BY <1>11, Zenon DEF WriteMd5
  <2> QED
    BY <1>11, <2>1 DEF WriteMd5, UpdateInv, IsUpdating, ResultInv, Contents
<1>12. CASE Reply
  BY <1>12 DEF Reply, Respond, IsSuccess, UpdateInv, IsUpdating, Refusals
<1>13. CASE ProcessDelete
  <2>1. misread' \in BOOLEAN
    BY <1>13, Zenon DEF ProcessDelete
  <2> QED
    BY <1>13, <2>1 DEF ProcessDelete
<1>14. CASE RemoveData
  <2>1. unnoticed' \in BOOLEAN
    BY <1>14, Zenon DEF RemoveData, Remove
  <2> QED
    BY <1>14, <2>1 DEF RemoveData, Remove, Contents
<1>15. CASE RemoveMd5
  <2>1. unnoticed' \in BOOLEAN
    BY <1>15, Zenon DEF RemoveMd5, Remove
  <2> QED
    BY <1>15, <2>1 DEF RemoveMd5, Remove, Respond, Contents
<1>16. CASE Send
  BY <1>16 DEF Send, NoResponse
<1>17. CASE Crash
  <2>1. misread' \in BOOLEAN
    BY <1>17, Zenon DEF Crash
  <2>2. data_file' \in Contents
    BY <1>17, PartsOfType DEF Crash, UpdateInv, IsUpdating, Contents
  <2>3. md5_file' \in Contents
    BY <1>17 DEF Crash, UpdateInv, IsUpdating, Contents
  <2> QED
    BY <1>17, <2>1, <2>2, <2>3 DEF Crash, NoResponse
<1>18. CASE UNCHANGED vars
  BY <1>18 DEF vars
<1> QED
  BY <1>1, <1>2, <1>3, <1>4, <1>5, <1>6, <1>7, <1>8, <1>9, <1>10, <1>11, <1>12, <1>13, <1>14, <1>15, <1>16, <1>17, <1>18 DEF Next

(* The parts about the control of the main thread.                         *)
LEMMA NextControl ==
    ASSUME IInv, [Next]_vars
    PROVE  UpdateInv' /\ DeleteInv' /\ StartInv'
<1> USE RequestsAssumption
    DEF IInv, TypeOK, files, history, bounds, Goto, UpdateInv, IsUpdating, ResultInv, DeleteInv, IsDeleting,
        StartInv, IsStarting, Sent, IsForgotten
<1>1. CASE Verify
  <2>1. PICK data \in DataReads, md5 \in Md5Reads :
            IF SignatureMatches(data, md5)
            THEN misread' = (data # Content(data_file)) /\ UNCHANGED md5_err_count
            ELSE md5_err_count' = md5_err_count + 1 /\ UNCHANGED misread
    BY <1>1 DEF Verify
  <2>2. CASE SignatureMatches(data, md5)
    <3>1. data = md5_file /\ data \in Schedules
      BY <2>2, Md5IsRead DEF SignatureMatches
    <3>2. data \in Sent \/ IsForgotten
      BY <3>1 DEF FilesInv
    <3>3. data = data_file \/ misread'
      BY <2>1, <2>2, <3>1 DEF Content
    <3> QED
      BY <1>1, <3>1, <3>2, <3>3 DEF Verify
  <2>3. CASE ~SignatureMatches(data, md5)
    <3>1. md5_err_count' = 1
      BY <1>1, <2>1, <2>3 DEF Verify
    <3> QED
      BY <1>1, <3>1 DEF Verify
  <2> QED
    BY <2>2, <2>3
<1>2. CASE Import
  BY <1>2 DEF Import
<1>3. ASSUME NEW m \in Messages, Receive(m)
      PROVE  UpdateInv' /\ DeleteInv' /\ StartInv'
  BY <1>3 DEF Receive
<1>4. CASE Unhandled
  BY <1>4 DEF Unhandled
<1>5. CASE Reject
  BY <1>5 DEF Reject, Respond
<1>6. CASE Retrieve
  BY <1>6 DEF Retrieve, Respond
<1>7. CASE ProcessUpdate
  BY <1>7 DEF ProcessUpdate, IsUpdate, StateNow
<1>8. CASE OpenData
  BY <1>8 DEF OpenData
<1>9. CASE WriteData
  BY <1>9 DEF WriteData
<1>10. CASE OpenMd5
  BY <1>10 DEF OpenMd5
<1>11. CASE WriteMd5
  BY <1>11 DEF WriteMd5
<1>12. CASE Reply
  BY <1>12 DEF Reply, Respond, IsSuccess
<1>13. CASE ProcessDelete
  BY <1>13 DEF ProcessDelete
<1>14. CASE RemoveData
  BY <1>14 DEF RemoveData, Remove
<1>15. CASE RemoveMd5
  BY <1>15 DEF RemoveMd5, Remove, Respond
<1>16. CASE Send
  BY <1>16 DEF Send
<1>17. CASE Crash
  BY <1>17 DEF Crash
<1>18. CASE UNCHANGED vars
  BY <1>18 DEF vars
<1> QED
  BY <1>1, <1>2, <1>3, <1>4, <1>5, <1>6, <1>7, <1>8, <1>9,
     <1>10, <1>11, <1>12, <1>13, <1>14, <1>15, <1>16, <1>17, <1>18 DEF Next

(* The part about rv.                                                      *)
LEMMA NextResult ==
    ASSUME IInv, [Next]_vars
    PROVE  ResultInv'
<1> USE RequestsAssumption
    DEF IInv, TypeOK, files, history, bounds, Goto, ResultInv, DataIsWritten, Md5IsWritten, UpdateInv,
        IsUpdating, StateNow
<1>1. CASE Verify
  BY <1>1 DEF Verify, SignatureMatches
<1>2. CASE Import
  BY <1>2 DEF Import
<1>3. ASSUME NEW m \in Messages, Receive(m)
      PROVE  ResultInv'
  BY <1>3 DEF Receive
<1>4. CASE Unhandled
  BY <1>4 DEF Unhandled
<1>5. CASE Reject
  BY <1>5 DEF Reject, Respond
<1>6. CASE Retrieve
  BY <1>6 DEF Retrieve, Respond
<1>7. CASE ProcessUpdate
  BY <1>7 DEF ProcessUpdate, IsUpdate
<1>8. CASE OpenData
  BY <1>8 DEF OpenData
<1>9. CASE WriteData
  BY <1>9, PartsOfType DEF WriteData
<1>10. CASE OpenMd5
  BY <1>10 DEF OpenMd5
<1>11. CASE WriteMd5
  BY <1>11 DEF WriteMd5
<1>12. CASE Reply
  BY <1>12 DEF Reply, Respond, IsSuccess
<1>13. CASE ProcessDelete
  BY <1>13 DEF ProcessDelete
<1>14. CASE RemoveData
  BY <1>14 DEF RemoveData, Remove
<1>15. CASE RemoveMd5
  BY <1>15 DEF RemoveMd5, Remove, Respond
<1>16. CASE Send
  BY <1>16 DEF Send
<1>17. CASE Crash
  BY <1>17 DEF Crash
<1>18. CASE UNCHANGED vars
  BY <1>18 DEF vars
<1> QED
  BY <1>1, <1>2, <1>3, <1>4, <1>5, <1>6, <1>7, <1>8, <1>9,
     <1>10, <1>11, <1>12, <1>13, <1>14, <1>15, <1>16, <1>17, <1>18 DEF Next

(* The part about the files.                                               *)
LEMMA NextFiles ==
    ASSUME IInv, [Next]_vars
    PROVE  FilesInv'
<1> USE DEF files, history, bounds, Goto
<1>1. /\ FilesInv
      /\ Sent \in SUBSET (Schedules \cup {None})
      /\ None \notin Schedules /\ Schedules \cap {NoFile, Empty, Torn} = {}
      /\ IsUpdating => request.payload \in Schedules \cap Sent /\ unacknowledged # {}
      /\ IsDeleting => unacknowledged # {}
  BY RequestsAssumption DEF IInv, TypeOK, Sent, UpdateInv, DeleteInv
<1>2. ASSUME UNCHANGED <<data_file, md5_file, acknowledged, unacknowledged, unnoticed>>
      PROVE  FilesInv'
  BY <1>1, <1>2 DEF FilesInv, Sent, IsForgotten, FileOf, Remains
<1>3. ASSUME NEW m \in Messages, Receive(m)
      PROVE  FilesInv'
  BY <1>2, <1>3 DEF Receive
<1>4. CASE Verify \/ Import \/ Unhandled \/ Reject \/ Retrieve \/ Send
  BY <1>2, <1>4 DEF Verify, Import, Unhandled, Reject, Retrieve, Send
<1>5. CASE ProcessUpdate \/ ProcessDelete
  <2>1. CASE UNCHANGED unacknowledged
    BY <1>2, <1>5, <2>1 DEF ProcessUpdate, ProcessDelete
  <2>2. CASE ~UNCHANGED unacknowledged
    <3>1. /\ UNCHANGED <<data_file, md5_file, acknowledged, unnoticed>>
          /\ unacknowledged' # {} /\ Sent \subseteq Sent'
      BY <1>5, <2>2 DEF ProcessUpdate, ProcessDelete, Sent
    <3>2. Remains(Sent) \subseteq Remains(Sent')
      BY <3>1, RemainsGrow
    <3> QED
      BY <1>1, <3>1, <3>2 DEF FilesInv, IsForgotten, Sent
  <2> QED
    BY <2>1, <2>2
<1>6. ASSUME IsUpdating,
             UNCHANGED <<acknowledged, unacknowledged>>, unnoticed => unnoticed',
             data_file' \in {data_file, Empty} \/ data_file' \in PartsOf(request.payload) \cup {request.payload},
             md5_file' \in {md5_file, Empty, Torn, request.payload}
      PROVE  FilesInv'
  <2>1. Sent' = Sent /\ unacknowledged' # {} /\ (IsForgotten => IsForgotten')
    BY <1>1, <1>6 DEF Sent, IsForgotten
  <2>2. md5_file' \in Schedules => md5_file' \in Sent \/ IsForgotten
    BY <1>1, <1>6 DEF FilesInv
  <2>3. data_file' \in Schedules => data_file' \in Remains(Sent) \/ IsForgotten
    <3>1. CASE data_file' \in {data_file, Empty}
      BY <1>1, <3>1 DEF FilesInv
    <3>2. CASE data_file' \in PartsOf(request.payload) \cup {request.payload}
      BY <1>1, <1>6, <3>2, PartsOfType, RemainsHas
    <3> QED
      BY <1>6, <3>1, <3>2
  <2> QED
    BY <2>1, <2>2, <2>3 DEF FilesInv
<1>7. CASE OpenData \/ OpenMd5
  BY <1>6, <1>7 DEF OpenData, OpenMd5, IsUpdating
<1>8. CASE WriteData \/ WriteMd5
  <2>1. unnoticed => unnoticed'
    BY <1>8, Zenon DEF WriteData, WriteMd5
  <2> QED
    BY <1>6, <1>8, <2>1 DEF WriteData, WriteMd5, IsUpdating
<1>9. CASE Reply
  <2>1. CASE IsSuccess
    <3>1. /\ UNCHANGED <<data_file, md5_file, unnoticed>>
          /\ acknowledged' = request.payload /\ unacknowledged' = {} /\ Sent' = {request.payload}
          /\ request.payload \in Schedules
      BY <1>1, <1>9, <2>1 DEF Reply, IsSuccess, IsUpdating, Sent
    <3>2. DataIsWritten /\ Md5IsWritten
      BY <1>9, <2>1 DEF Reply, IsSuccess, IInv, ResultInv
    <3>3. data_file \in Schedules => data_file \in Remains({request.payload})
      BY <1>1, <3>1, <3>2, RemainsHas DEF DataIsWritten
    <3>4. md5_file \in Schedules => md5_file = request.payload
      BY <1>1, <3>2 DEF Md5IsWritten
    <3>5. ~unnoticed => data_file = FileOf(request.payload) /\ md5_file = FileOf(request.payload)
      BY <1>1, <3>1, <3>2 DEF DataIsWritten, Md5IsWritten, FileOf
    <3>6. ~unnoticed' =>
              data_file' = FileOf(acknowledged') /\ md5_file' = FileOf(acknowledged')
      BY <3>1, <3>5, Zenon
    <3> QED
      BY <3>1, <3>3, <3>4, <3>6 DEF FilesInv
  <2>2. CASE ~IsSuccess
    BY <1>2, <1>9, <2>2 DEF Reply
  <2> QED
    BY <2>1, <2>2
<1>10. CASE RemoveData
  <2>1. /\ UNCHANGED <<md5_file, acknowledged, unacknowledged>> /\ unacknowledged # {}
        /\ data_file' \in {data_file, NoFile}
    BY <1>1, <1>10 DEF RemoveData, IsDeleting
  <2>2. unnoticed => unnoticed'
    BY <1>10, Zenon DEF RemoveData, Remove
  <2>3. Sent' = Sent /\ (IsForgotten => IsForgotten')
    BY <2>1, <2>2 DEF Sent, IsForgotten
  <2> QED
    BY <1>1, <2>1, <2>3 DEF FilesInv
<1>11. CASE RemoveMd5
  <2>1. /\ UNCHANGED data_file /\ acknowledged' = None /\ unacknowledged' = {}
        /\ md5_file' \in {md5_file, NoFile}
    BY <1>11 DEF RemoveMd5
  <2>2. md5_file' = NoFile \/ unnoticed'
    BY <1>11, Zenon DEF RemoveMd5, Remove
  <2>3. data_file = NoFile \/ unnoticed'
    <3>1. data_file = NoFile \/ unnoticed
      BY <1>11 DEF RemoveMd5, IInv, DeleteInv, IsDeleting
    <3>2. unnoticed => unnoticed'
      BY <1>11, Zenon DEF RemoveMd5, Remove
    <3> QED
      BY <3>1, <3>2
  <2> QED
    BY <1>1, <2>1, <2>2, <2>3 DEF FilesInv, IsForgotten, FileOf
<1>12. CASE Crash
  <2>1. CASE IsUpdating
    BY <1>6, <1>12, <2>1 DEF Crash
  <2>2. CASE ~IsUpdating
    BY <1>2, <1>12, <2>2 DEF Crash, IsUpdating
  <2> QED
    BY <2>1, <2>2
<1>13. CASE UNCHANGED vars
  BY <1>2, <1>13 DEF vars
<1> QED
  BY <1>3, <1>4, <1>5, <1>7, <1>8, <1>9, <1>10, <1>11, <1>12, <1>13 DEF Next

(* The part about the memory.                                              *)
LEMMA NextMemory ==
    ASSUME IInv, [Next]_vars
    PROVE  MemoryInv'
<1> USE DEF files, history, bounds, Goto
<1>1. /\ MemoryInv
      /\ Sent \in SUBSET (Schedules \cup {None})
      /\ IsUpdating \/ IsDeleting => in_force \in unacknowledged
  BY DEF IInv, TypeOK, Sent, UpdateInv, DeleteInv
<1>2. ASSUME ~IsStarting,
             UNCHANGED <<data_file, in_force, md5_err_count, acknowledged, unacknowledged, unnoticed, misread>>
      PROVE  MemoryInv'
  BY <1>1, <1>2 DEF MemoryInv, Sent, IsForgotten, Remains
<1>3. ASSUME IsStarting'
      PROVE  MemoryInv'
  BY <1>3 DEF MemoryInv
<1>4. ASSUME in_force' \in unacknowledged' \/ (in_force' = acknowledged' /\ unacknowledged' = {})
      PROVE  MemoryInv'
  BY <1>4 DEF MemoryInv, Sent
<1>5. CASE Verify \/ Crash
  BY <1>3, <1>5 DEF Verify, Crash, IsStarting
<1>6. CASE Import
  <2>1. PICK data \in DataReads :
            /\ in_force' = IF data \in Schedules THEN data ELSE in_force
            /\ misread' = (misread \/ data # Content(data_file))
    BY <1>6 DEF Import
  <2>2. /\ UNCHANGED <<data_file, md5_err_count, acknowledged, unacknowledged, unnoticed>>
        /\ Sent' = Sent /\ (IsForgotten' <=> IsForgotten)
    BY <1>6 DEF Import, Sent, IsForgotten
  <2>3. /\ in_force = None /\ StartInv /\ FilesInv /\ None \notin Schedules
        /\ pc = "import" /\ data_file \in Contents
    BY <1>6, RequestsAssumption DEF Import, IInv, TypeOK, StartInv, IsStarting
  <2>4. /\ data \in Schedules =>
               data = data_file \/ (misread' /\ data_file \in Schedules /\ data \in Parts[data_file])
        /\ data \notin Schedules /\ data_file \in Schedules => misread'
    <3>1. /\ data \in Schedules =>
                  \/ data = data_file /\ data = Content(data_file)
                  \/ data_file \in Schedules /\ data \in Parts[data_file]
          /\ data \notin Schedules /\ data_file \in Schedules => data # Content(data_file)
      BY <2>3, DataIsRead
    <3>2. data_file \in Schedules => Content(data_file) = data_file
      BY RequestsAssumption DEF Content, HasContent
    <3> QED
      BY <2>1, <3>1, <3>2
  <2>5. \/ in_force' \in Sent
        \/ in_force' \in Remains(Sent) /\ (md5_err_count = 1 \/ misread')
        \/ IsForgotten /\ (in_force' = data_file \/ (misread' /\ in_force' \in Remains({data_file})))
    <3>1. CASE data \notin Schedules
      <4>1. in_force' = None /\ None \in Remains(Sent)
        BY <2>1, <2>3, <3>1 DEF Remains
      <4>2. md5_err_count = 1 \/ misread'
        BY <2>1, <2>3, <2>4, <3>1 DEF StartInv
      <4> QED
        BY <4>1, <4>2
    <3>2. CASE data \in Schedules
      <4>1. in_force' = data /\ data_file \in Schedules
        BY <2>1, <2>4, <3>2
      <4>2. data \in Remains({data_file})
        BY <2>4, <3>2, <4>1, RemainsHas
      <4>3. CASE IsForgotten
        BY <2>4, <3>2, <4>1, <4>2, <4>3
      <4>4. CASE ~IsForgotten
        <5>1. data_file \in Remains(Sent)
          BY <2>3, <4>1, <4>4 DEF FilesInv
        <5>2. data \in Remains(Sent)
          BY <1>1, <2>4, <3>2, <4>1, <5>1, PartsRemain
        <5>3. data \in Sent \/ md5_err_count = 1 \/ misread'
          BY <2>1, <2>3, <2>4, <3>2, <4>4 DEF StartInv
        <5> QED
          BY <4>1, <5>2, <5>3
      <4> QED
        BY <4>3, <4>4
    <3> QED
      BY <3>1, <3>2
  <2>6. ASSUME unacknowledged = {}, ~unnoticed
        PROVE  in_force' = acknowledged \/ (misread' /\ in_force' \in Remains({acknowledged}))
    <3>1. data_file = FileOf(acknowledged)
      BY <2>3, <2>6 DEF FilesInv
    <3>2. CASE acknowledged = None
      BY <2>1, <2>3, <2>4, <3>1, <3>2, RequestsAssumption DEF FileOf
    <3>3. CASE acknowledged # None
      <4>1. data_file = acknowledged /\ acknowledged \in Schedules
        BY <1>1, <3>1, <3>3 DEF FileOf, Sent
      <4>2. CASE data \in Schedules
        BY <2>1, <2>4, <4>1, <4>2, RemainsHas
      <4>3. CASE data \notin Schedules
        BY <2>1, <2>3, <2>4, <4>1, <4>3 DEF Remains
      <4> QED
        BY <4>2, <4>3
    <3> QED
      BY <3>2, <3>3
  <2> QED
    BY <2>2, <2>5, <2>6 DEF MemoryInv
<1>7. ASSUME NEW m \in Messages, Receive(m)
      PROVE  MemoryInv'
  BY <1>2, <1>7 DEF Receive, IsStarting
<1>8. CASE Unhandled \/ Reject \/ Retrieve \/ Send
  BY <1>2, <1>8 DEF Unhandled, Reject, Retrieve, Send, IsStarting
<1>9. CASE ProcessUpdate
  <2>1. CASE request.payload \in Schedules
    BY <1>4, <1>9, <2>1 DEF ProcessUpdate
  <2>2. CASE request.payload \notin Schedules
    BY <1>2, <1>9, <2>2 DEF ProcessUpdate, IsStarting
  <2> QED
    BY <2>1, <2>2
<1>10. CASE ProcessDelete
  BY <1>4, <1>10 DEF ProcessDelete
<1>11. CASE OpenData \/ WriteData \/ OpenMd5 \/ WriteMd5 \/ RemoveData
  BY <1>1, <1>4, <1>11 DEF OpenData, WriteData, OpenMd5, WriteMd5, RemoveData, IsUpdating, IsDeleting
<1>12. CASE Reply
  <2>1. CASE IsSuccess
    <3>1. in_force = request.payload
      BY <1>12, <2>1 DEF Reply, IsSuccess, IInv, UpdateInv, IsUpdating
    <3> QED
      BY <1>4, <1>12, <2>1, <3>1 DEF Reply
  <2>2. CASE ~IsSuccess
    BY <1>2, <1>12, <2>2 DEF Reply, IsStarting
  <2> QED
    BY <2>1, <2>2
<1>13. CASE RemoveMd5
  <2>1. in_force = None
    BY <1>13 DEF RemoveMd5, IInv, DeleteInv, IsDeleting
  <2> QED
    BY <1>4, <1>13, <2>1 DEF RemoveMd5
<1>14. CASE UNCHANGED vars
  <2>1. CASE IsStarting
    BY <1>3, <1>14, <2>1 DEF vars, IsStarting
  <2>2. CASE ~IsStarting
    BY <1>2, <1>14, <2>2 DEF vars
  <2> QED
    BY <2>1, <2>2
<1> QED
  BY <1>5, <1>6, <1>7, <1>8, <1>9, <1>10, <1>11, <1>12, <1>13, <1>14 DEF Next

(* The part about what is refused.                                         *)
LEMMA NextRefusals ==
    ASSUME IInv, [Next]_vars
    PROVE  RefusalsChangeNothing' /\ (pc' = "crud" => StateNow' = before')
<1> USE RequestsAssumption
    DEF IInv, TypeOK, files, history, bounds, Goto, RefusalsChangeNothing, StateNow, UpdateInv, IsUpdating, ResultInv, DeleteInv, IsDeleting, IsRetrieve, IsModification, IsUpdate
<1>1. CASE Verify
  BY <1>1 DEF Verify, SignatureMatches
<1>2. CASE Import
  BY <1>2 DEF Import
<1>3. ASSUME NEW m \in Messages, Receive(m)
      PROVE  RefusalsChangeNothing' /\ (pc' = "crud" => StateNow' = before')
  BY <1>3 DEF Receive
<1>4. CASE Unhandled
  BY <1>4 DEF Unhandled
<1>5. CASE Reject
  BY <1>5 DEF Reject, Respond
<1>6. CASE Retrieve
  BY <1>6 DEF Retrieve, Respond
<1>7. CASE ProcessUpdate
  BY <1>7 DEF ProcessUpdate, IsUpdate
<1>8. CASE OpenData
  BY <1>8 DEF OpenData
<1>9. CASE WriteData
  BY <1>9 DEF WriteData
<1>10. CASE OpenMd5
  BY <1>10 DEF OpenMd5
<1>11. CASE WriteMd5
  BY <1>11 DEF WriteMd5
<1>12. CASE Reply
  BY <1>12 DEF Reply, Respond, IsSuccess
<1>13. CASE ProcessDelete
  BY <1>13 DEF ProcessDelete
<1>14. CASE RemoveData
  BY <1>14 DEF RemoveData, Remove
<1>15. CASE RemoveMd5
  BY <1>15 DEF RemoveMd5, Remove, Respond
<1>16. CASE Send
  BY <1>16 DEF Send
<1>17. CASE Crash
  BY <1>17 DEF Crash
<1>18. CASE UNCHANGED vars
  BY <1>18 DEF vars
<1> QED
  BY <1>1, <1>2, <1>3, <1>4, <1>5, <1>6, <1>7, <1>8, <1>9,
     <1>10, <1>11, <1>12, <1>13, <1>14, <1>15, <1>16, <1>17, <1>18 DEF Next

THEOREM Invariance == Spec => []IInv
<1>1. IInv /\ [Next]_vars => IInv'
  BY NextTypeOK, NextControl, NextResult, NextFiles, NextMemory, NextRefusals DEF IInv
<1> QED
  BY <1>1, InitIInv, PTL DEF Spec

-----------------------------------------------------------------------------
(***************************************************************************)
(* The variables keep their types, for any number of requests and crashes. *)
(***************************************************************************)
THEOREM TypeCorrect == Spec => []TypeOK
<1>1. IInv => TypeOK
  BY DEF IInv
<1> QED
  BY <1>1, Invariance, PTL

(***************************************************************************)
(* Between two requests, and after any restart, memory and both files have *)
(* what was last acknowledged, unless something came after it; if a read   *)
(* of the last start failed, memory may have less, and the files still     *)
(* have it.                                                                *)
(***************************************************************************)
THEOREM AcknowledgedIsKept == Spec => []AcknowledgedSurvives
<1>1. IInv => AcknowledgedSurvives
  BY DEF IInv, FilesInv, MemoryInv, IsStarting, AcknowledgedSurvives
<1> QED
  BY <1>1, Invariance, PTL

(***************************************************************************)
(* The schedule in force is one that was sent; or it is nothing or a part  *)
(* of one, and then the loss has been counted, or a read of the last start *)
(* failed.  This holds whatever calls of the file system fail, but for a   *)
(* remove(): what was to be forgotten may come back.                       *)
(***************************************************************************)
THEOREM LossIsNoticed == Spec => []NothingIsLostSilently
<1>1. IInv => NothingIsLostSilently
  BY DEF IInv, MemoryInv, IsStarting, IsForgotten, NothingIsLostSilently
<1> QED
  BY <1>1, Invariance, PTL

(***************************************************************************)
(* A request that is refused leaves the schedule in force and both files   *)
(* alone.                                                                  *)
(***************************************************************************)
THEOREM RefusalsAreHarmless == Spec => []RefusalsChangeNothing
<1>1. IInv => RefusalsChangeNothing
  BY DEF IInv
<1> QED
  BY <1>1, Invariance, PTL

-----------------------------------------------------------------------------
(* Every step is one of the store, or none.                                *)
LEMMA StepImplementsStep ==
    ASSUME IInv, [Next]_vars
    PROVE  [Abstract!Next]_Abstract!vars
<1> USE RequestsAssumption
    DEF IInv, TypeOK, files, history, bounds, Goto, Abstract!vars, Abstract!Next
<1>1. CASE Verify
  <2>1. PICK data \in DataReads, md5 \in Md5Reads :
            IF SignatureMatches(data, md5)
            THEN misread' = (data # Content(data_file)) /\ UNCHANGED md5_err_count
            ELSE md5_err_count' = md5_err_count + 1 /\ UNCHANGED misread
    BY <1>1 DEF Verify
  <2>2. CASE SignatureMatches(data, md5)
    BY <1>1, <2>1, <2>2 DEF Verify, Abstract!Misread, StartInv, IsStarting
  <2>3. CASE ~SignatureMatches(data, md5)
    BY <1>1, <2>1, <2>3 DEF Verify, Abstract!Check, StartInv, IsStarting
  <2> QED
    BY <2>2, <2>3
<1>2. CASE Import
  <2>1. in_force' \in Schedules \cup {None} /\ misread' \in {misread, TRUE}
    <3>1. TypeOK'
      BY NextTypeOK
    <3>2. misread' \in {misread, TRUE}
      BY <1>2, Zenon DEF Import
    <3> QED
      BY <3>1, <3>2
  <2>2. ~IsStarting'
    BY <1>2 DEF Import, IsStarting
  <2>3. \/ in_force' \in Sent
        \/ in_force' \in Remains(Sent) /\ (md5_err_count = 1 \/ misread')
        \/ IsForgotten /\ in_force' \in Schedules \cup {None}
    <3>1. MemoryInv'
      BY NextMemory
    <3> QED
      BY <1>2, <2>1, <2>2, <3>1 DEF Import, MemoryInv, Sent, IsForgotten, Remains
  <2>4. unacknowledged = {} /\ ~unnoticed => in_force' = acknowledged \/ misread'
    <3>1. MemoryInv'
      BY NextMemory
    <3> QED
      BY <1>2, <2>2, <3>1 DEF Import, MemoryInv
  <2>5. Abstract!Kept = Sent
    BY DEF Abstract!Kept, Sent
  <2>6. in_force' \in Remains(Sent) => in_force' \in Sent \/ Abstract!IsRemnant(in_force')
    BY <2>5 DEF Remains, Abstract!IsRemnant
  <2>7. \/ in_force' \in Abstract!Kept
        \/ Abstract!IsRemnant(in_force') /\ (Abstract!IsDamaged \/ misread')
        \/ Abstract!ComesBack(in_force')
    <3>1. CASE in_force' \in Sent
      BY <2>5, <3>1
    <3>2. CASE in_force' \in Remains(Sent) /\ in_force' \notin Sent /\ (md5_err_count = 1 \/ misread')
      <4>1. acknowledged \in Sent
        BY DEF Sent
      <4>2. misread' \/ unacknowledged # {} \/ unnoticed
        BY <2>4, <3>2, <4>1
      <4> QED
        BY <2>6, <3>2, <4>2 DEF Abstract!IsDamaged
    <3>3. CASE IsForgotten /\ in_force' \in Schedules
      BY <3>3 DEF IsForgotten, Abstract!ComesBack
    <3>4. CASE IsForgotten /\ in_force' = None
      BY <3>4, <2>5 DEF IsForgotten, Sent
    <3> QED
      BY <2>3, <3>1, <3>2, <3>3, <3>4
  <2>8. Abstract!Recover(in_force')
    BY <1>2, <2>1, <2>7 DEF Import, Abstract!Recover
  <2> QED
    BY <2>1, <2>8
<1>3. ASSUME NEW m \in Messages, Receive(m)
      PROVE  UNCHANGED Abstract!vars
  BY <1>3 DEF Receive
<1>4. CASE Unhandled \/ Reject \/ Retrieve \/ Send
  BY <1>4 DEF Unhandled, Reject, Retrieve, Send, Respond
<1>5. CASE ProcessUpdate
  BY <1>5 DEF ProcessUpdate, Abstract!Put
<1>6. CASE OpenData \/ OpenMd5
  BY <1>6 DEF OpenData, OpenMd5
<1>7. CASE WriteData \/ WriteMd5
  BY <1>7 DEF WriteData, WriteMd5, Abstract!FailUnnoticed
<1>8. CASE Reply
  BY <1>8 DEF Reply, Respond, IsSuccess, UpdateInv, IsUpdating, Abstract!Promise
<1>9. CASE ProcessDelete
  BY <1>9 DEF ProcessDelete, Abstract!Put
<1>10. CASE RemoveData
  BY <1>10 DEF RemoveData, Remove, Abstract!FailUnnoticed
<1>11. CASE RemoveMd5
  BY <1>11 DEF RemoveMd5, Remove, Respond, DeleteInv, IsDeleting, Abstract!Promise
<1>12. CASE Crash
  BY <1>12 DEF Crash, Abstract!Crash
<1>13. CASE UNCHANGED vars
  BY <1>13 DEF vars
<1> QED
  BY <1>1, <1>2, <1>3, <1>4, <1>5, <1>6, <1>7, <1>8, <1>9, <1>10, <1>11, <1>12, <1>13 DEF Next

(***************************************************************************)
(* The requests, the files and the import implement the store, for every   *)
(* set of schedules, every fault - of reads, writes and removals - and any *)
(* number of crashes.                                                      *)
(***************************************************************************)
THEOREM StoreIsImplemented == Spec => ImplementsStore
<1>1. Init => Abstract!Init
  BY DEF Init, Abstract!Init
<1>2. IInv /\ [Next]_vars => [Abstract!Next]_Abstract!vars
  BY StepImplementsStep
<1> QED
  BY <1>1, <1>2, Invariance, PTL DEF Spec, ImplementsStore, Abstract!Spec
=============================================================================
