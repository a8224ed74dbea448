------------------------------ MODULE Storage -------------------------------
(***************************************************************************)
(* The components that keep files and documents: instances of their        *)
(* modules, each with constants and variables of its own.  They share no   *)
(* state.                                                                  *)
(***************************************************************************)
EXTENDS Integers

CONSTANTS
    Mutation, ActionOf, FileWorker, WorkerOfMutation, ItemId, ItemOf,         \* DataFile
    Upload, Old, Removal, Target, Owner, OwnerOf, Size, Content, MaxUpload,   \* Media
    Quota, Deduplicate,
    Save, Create, EditorWorker, WorkerOfEditor, Thread, Document, DocumentOf, \* Documents
    Text, Expects, TextAtStart, Loads,
    NodeName, NodeOutput, NodeInput, MaxEdges,                                \* GraphCheck
    Nothing

-----------------------------------------------------------------------------
(* DataFile: the mutations of a file by requests of several workers. *)

VARIABLES dataFile, dataLock, dataFileLock, dataThread, dataRead, dataReply, dataDown,
          dataExpected

dataVars == <<dataFile, dataLock, dataFileLock, dataThread, dataRead, dataReply,
              dataDown, dataExpected>>

Data == INSTANCE DataFile WITH
    Request <- Mutation, Action <- ActionOf, Worker <- FileWorker,
    WorkerOf <- WorkerOfMutation, Id <- ItemId, ItemOf <- ItemOf, None <- Nothing,
    file <- dataFile, lock <- dataLock, fileLock <- dataFileLock, thread <- dataThread,
    read <- dataRead, reply <- dataReply, down <- dataDown, expected <- dataExpected

ASSUME DataIsLegal == Data!ConstantsAreLegal

-----------------------------------------------------------------------------
(* Media: files, rows and the quota of their owners. *)

VARIABLES mediaFiles, mediaRows, mediaUsed, mediaStage, mediaSum

mediaVars == <<mediaFiles, mediaRows, mediaUsed, mediaStage, mediaSum>>

Shelf == INSTANCE Media WITH
    Upload <- Upload, Old <- Old, Removal <- Removal, Target <- Target, Owner <- Owner,
    OwnerOf <- OwnerOf, Size <- Size, Content <- Content, MaxUpload <- MaxUpload,
    Limit <- Quota, Deduplicate <- Deduplicate, None <- Nothing, files <- mediaFiles,
    rows <- mediaRows, used <- mediaUsed, stage <- mediaStage, sum <- mediaSum

ASSUME ShelfIsLegal == Shelf!ConstantsAreLegal

-----------------------------------------------------------------------------
(* Documents: saves and creations of a project in several workers. *)

VARIABLES docFile, docProject, docLock, docFileLock, docThread, docStage, docDown

docVars == <<docFile, docProject, docLock, docFileLock, docThread, docStage, docDown>>

Editor == INSTANCE Documents WITH
    Save <- Save, Create <- Create, Worker <- EditorWorker, WorkerOf <- WorkerOfEditor,
    Thread <- Thread, Document <- Document, DocumentOf <- DocumentOf, Text <- Text,
    Expects <- Expects, Start <- TextAtStart, Loads <- Loads, None <- Nothing,
    file <- docFile, project <- docProject, lock <- docLock, fileLock <- docFileLock,
    thread <- docThread, stage <- docStage, down <- docDown

ASSUME EditorIsLegal == Editor!ConstantsAreLegal

-----------------------------------------------------------------------------
(* GraphCheck: the decision whether a graph has a cycle. *)

VARIABLES graphNodes, graphEdges, graphStage, graphIndegree, graphReady, graphVisited

graphVars == <<graphNodes, graphEdges, graphStage, graphIndegree, graphReady,
               graphVisited>>

Graph == INSTANCE GraphCheck WITH
    Name <- NodeName, Output <- NodeOutput, Input <- NodeInput, MaxEdges <- MaxEdges,
    nodes <- graphNodes, edges <- graphEdges, stage <- graphStage,
    indegree <- graphIndegree, ready <- graphReady, visited <- graphVisited

ASSUME GraphIsLegal == Graph!ConstantsAreLegal

-----------------------------------------------------------------------------
(* The properties of the components; each is stated and explained in its module. *)

\* The file holds every mutation that was answered, each applied to the last.
NoUpdateIsLost == Data!NoUpdateIsLost

\* The rows of an owner never exceed the quota.
QuotaHolds == Shelf!QuotaHolds

\* A row always has its file.
RowsHaveFiles == Shelf!RowsHaveFiles

\* A save replaces the content its client has read.
SavesReplaceWhatTheyRead == Editor!SavesReplaceWhatTheyRead

\* The documents on disk always load together.
ProjectLoads == Editor!ProjectLoads

\* A graph is accepted if and only if it has no cycle.
AcyclicGraphsPass == Graph!AcyclicGraphsPass

=============================================================================
