---------------------------- MODULE HttpWorker ----------------------------
(***************************************************************************)
(* The HTTP requests of the server: the thread that sends them             *)
(* (apps/server/http_worker), the main loop that queues them and calls the *)
(* handlers of the responses, and the two services that use them: the      *)
(* registration to the business server, whose next request is scheduled by *)
(* the response of the previous one, and the notifications on Discord, at  *)
(* most one per interval.                                                  *)
(***************************************************************************)
EXTENDS Integers, Sequences, FiniteSets, SequencesExt

CONSTANTS Interval,    \* the interval between two notifications
          MaxRequests  \* bound on the requests and responses queued

Hello        == "gs/hello"
Notification == "notification"

VARIABLES requestQueue, \* request_queue, shared
          resultQueue,  \* result_queue, shared
          quit,         \* quit, shared
          worker,       \* the thread: "checking", "asleep", "exited", "failed",
                        \* or the request it processes
          signal,       \* a notification of data_available is to be made
          registration, \* "scheduled" or "requested"
          wait,         \* the time before another notification is accepted
          main          \* the main loop: "running", "stopping", "joined"

httpVars ==
  <<requestQueue, resultQueue, quit, worker, signal, registration, wait, main>>

Processing == worker \in {Hello, Notification}

-----------------------------------------------------------------------------
(* The thread.  The predicate of data_available is evaluated with in_mutex *)
(* locked, which the wait releases as the thread falls asleep.             *)

\* A variant of Ready with a defect: the queue alone wakes the thread up.
HasRequest == requestQueue # <<>>

Ready == quit \/ requestQueue # <<>>

FallAsleep ==
  /\ worker = "checking" /\ ~Ready
  /\ worker' = "asleep"
  /\ UNCHANGED <<requestQueue, resultQueue, quit, signal, registration, wait, main>>

TakeRequest ==
  /\ worker = "checking" /\ Ready /\ ~quit
  /\ worker' = Head(requestQueue)
  /\ requestQueue' = Tail(requestQueue)
  /\ UNCHANGED <<resultQueue, quit, signal, registration, wait, main>>

Exit ==
  /\ worker = "checking" /\ Ready /\ quit
  /\ worker' = "exited"
  /\ UNCHANGED <<requestQueue, resultQueue, quit, signal, registration, wait, main>>

\* The response is queued, whether the request succeeded or not.
ProcessRequest ==
  /\ Processing
  /\ resultQueue' = Append(resultQueue, worker)
  /\ worker' = "checking"
  /\ UNCHANGED <<requestQueue, quit, signal, registration, wait, main>>

-----------------------------------------------------------------------------
(* The main loop. *)

\* http_worker::push, the thread being notified once the mutex is released.
PushRequest(request) ==
  /\ ~signal
  /\ Len(requestQueue) + Len(resultQueue) < MaxRequests
  /\ requestQueue' = Append(requestQueue, request)
  /\ signal' = TRUE

\* data_available.notify_one and notify_all: without effect on a thread awake.
Notify ==
  /\ signal
  /\ signal' = FALSE
  /\ worker' = IF worker = "asleep" THEN "checking" ELSE worker
  /\ UNCHANGED <<requestQueue, resultQueue, quit, registration, wait, main>>

SendRegistrationRequest ==
  /\ main = "running" /\ registration = "scheduled"
  /\ PushRequest(Hello)
  /\ registration' = "requested"
  /\ UNCHANGED <<resultQueue, quit, worker, wait, main>>

SendMatchmakingNotification ==
  /\ main = "running" /\ wait = 0
  /\ PushRequest(Notification)
  /\ wait' = Interval
  /\ UNCHANGED <<resultQueue, quit, worker, registration, main>>

Second ==
  /\ main = "running" /\ wait > 0
  /\ wait' = wait - 1
  /\ UNCHANGED <<requestQueue, resultQueue, quit, worker, signal, registration, main>>

ScheduleRegistration == registration' = "scheduled"

\* The handlers of the registration schedule the next one: after the delay the
\* business server asks for, or its own pulse when the request failed.
DispatchResponses ==
  /\ main = "running" /\ ~signal
  /\ resultQueue # <<>>
  /\ resultQueue' = <<>>
  /\ IF Contains(resultQueue, Hello) THEN ScheduleRegistration
                                     ELSE UNCHANGED registration
  /\ UNCHANGED <<requestQueue, quit, worker, signal, wait, main>>

\* SIGINT ends the loop, then the destructor asks the thread to end.
Stop ==
  /\ main = "running" /\ ~signal
  /\ main' = "stopping"
  /\ quit' = TRUE /\ requestQueue' = <<>>
  /\ signal' = TRUE
  /\ UNCHANGED <<resultQueue, worker, registration, wait>>

\* Joining waits for the end of the thread: of its current request first.
Join ==
  /\ main = "stopping" /\ ~signal
  /\ worker \in {"exited", "failed"}
  /\ main' = "joined"
  /\ UNCHANGED <<requestQueue, resultQueue, quit, worker, signal, registration, wait>>

\* The thread ends at once when it gets no CURL handle.
Started == {"checking", "failed"}

HttpInit ==
  /\ requestQueue = <<>> /\ resultQueue = <<>> /\ quit = FALSE
  /\ worker \in Started
  /\ signal = FALSE /\ registration = "scheduled" /\ wait = 0
  /\ main = "running"

HttpNext ==
  \/ FallAsleep \/ TakeRequest \/ Exit \/ ProcessRequest
  \/ Notify \/ SendRegistrationRequest \/ SendMatchmakingNotification
  \/ Second \/ DispatchResponses \/ Stop \/ Join

HttpSpec == HttpInit /\ [][HttpNext]_httpVars

-----------------------------------------------------------------------------
(* Properties. *)

Count(s) == Cardinality({i \in DOMAIN s : s[i] = Hello})

\* While the server runs, one registration is scheduled, waits for the thread,
\* is processed or has its response waiting, never two and never none; and the
\* thread does not sleep while it has a request to send or has been asked to
\* end (http_worker, business_registration_service).
RegistrationGoesOn ==
  /\ main = "running" =>
       Count(requestQueue) + Count(resultQueue)
       + (IF worker = Hello THEN 1 ELSE 0)
       + (IF registration = "scheduled" THEN 1 ELSE 0) = 1
  /\ worker = "asleep" /\ ~signal => requestQueue = <<>> /\ ~quit
=============================================================================
