---------------------------- MODULE LaserSession ----------------------------
(***************************************************************************)
(* The life of the driver in a program (driver/src/sick_generic_laser.cpp, *)
(* driver/src/sick_scan_xd_api/api_impl.cpp): startGenericLaser makes the  *)
(* laser thread, which initialises the scanner and runs it; SickScanApiClose, *)
(* a signal or the service SickScanExit stop it from another thread.  They *)
(* share s_scanner, s_isInitialized, s_runState and the flag of the signal *)
(* handler, without a lock.  Every write of one of them is a step.         *)
(*                                                                         *)
(* What init_scanner and the connection do is in StartUp and TcpConnection. *)
(***************************************************************************)
EXTENDS Naturals

CONSTANTS Stops,         \* how the program stops the driver: "close" for
                         \* SickScanApiClose and signals, "service" for SickScanExit
          MaxSessions    \* bound of this model: laser threads made

ASSUME SessionAssumption ==
    /\ Stops \subseteq {"close", "service"} /\ MaxSessions \in Nat

VARIABLES laser,         \* where the laser thread is, "none" without one
          changeIP,      \* new_IP_address is in its launch file
          monitoring,    \* message_monitoring_enabled of its launch file
          laserThread,   \* s_generic_laser_thread # 0
          exitCode,      \* exit_code of the laser thread is ExitSuccess
          scanner,       \* s_scanner # NULL
          isInitialized, \* s_isInitialized
          runState,      \* s_runState
          shutdownSignalReceived,
          status,        \* s_status_code
          program,       \* where the thread of the program is
          stop,          \* its last way to stop the driver, "none" before one
          sessions       \* laser threads made so far

launch == <<changeIP, monitoring>>
lasers == <<laser, exitCode>>
shared == <<laserThread, scanner, isInitialized, runState, shutdownSignalReceived, status>>
programs == <<program, stop, sessions>>
sessionVars == <<launch, lasers, shared, programs>>

rosOk == ~shutdownSignalReceived

-----------------------------------------------------------------------------
(* The laser thread: mainGenericLaserInternal. *)

LaserGoes(from, to) == laser = from /\ laser' = to

\* Fault: the loop asks for the run state only.
TestsRunStateOnly ==
    /\ laser = "head"
    /\ laser' = IF runState # "finalize" THEN "switch" ELSE "leave"
    /\ UNCHANGED <<exitCode, shared>>

TestsRun ==
    /\ laser = "head"
    /\ laser' = IF rosOk /\ runState # "finalize" THEN "switch" ELSE "leave"
    /\ UNCHANGED <<exitCode, shared>>

\* case scanner_init: the old scanner is deleted and a new one made.
BeginsInit ==
    /\ LaserGoes("switch", "delete") /\ runState = "init"
    /\ status' = "INIT"
    /\ UNCHANGED <<exitCode, laserThread, scanner, isInitialized, runState, shutdownSignalReceived>>

DeletesOld ==
    /\ LaserGoes("delete", "new")
    /\ scanner' = FALSE
    /\ UNCHANGED <<exitCode, laserThread, isInitialized, runState, shutdownSignalReceived, status>>

MakesScanner ==
    /\ LaserGoes("new", "init")
    /\ scanner' = TRUE
    /\ UNCHANGED <<exitCode, laserThread, isInitialized, runState, shutdownSignalReceived, status>>

\* SickScanCommonTcp::init connects and configures, or fails and is tried again.
Initialises ==
    /\ laser = "init"
    /\ exitCode' \in BOOLEAN
    /\ laser' = IF exitCode' THEN "services" ELSE "head"
    /\ UNCHANGED shared

SetsInitialized ==
    /\ LaserGoes("services", "setrun")
    /\ isInitialized' = TRUE
    /\ UNCHANGED <<exitCode, laserThread, scanner, runState, shutdownSignalReceived, status>>

SetsRun ==
    /\ LaserGoes("setrun", "setstatus")
    /\ runState' = IF changeIP THEN "finalize" ELSE "run"
    /\ UNCHANGED <<exitCode, laserThread, scanner, isInitialized, shutdownSignalReceived, status>>

SetsStatus ==
    /\ LaserGoes("setstatus", "head")
    /\ status' = IF changeIP THEN "EXIT" ELSE "OK"
    /\ UNCHANGED <<exitCode, laserThread, scanner, isInitialized, runState, shutdownSignalReceived>>

\* case scanner_run: loopOnce processes a telegram.  Its exit code counts only
\* without monitoring, and the monitoring fails only by an exception.
LoopsOnce ==
    /\ laser = "switch" /\ runState = "run" /\ exitCode
    /\ \/ exitCode' = TRUE /\ laser' = (IF monitoring THEN "report" ELSE "head")
       \/ ~monitoring /\ exitCode' = FALSE /\ laser' = "head"
       \/ monitoring /\ UNCHANGED exitCode /\ laser' = "reinit"
    /\ UNCHANGED shared

\* checkStateReinitOnError tries until it succeeds or the node stops.
Reinitialises ==
    /\ laser = "reinit"
    /\ \/ laser' = "report" /\ UNCHANGED exitCode
       \/ rosOk /\ UNCHANGED lasers
       \/ laser' = "report" /\ exitCode' = FALSE
    /\ UNCHANGED shared

Reports ==
    /\ LaserGoes("report", "head")
    /\ status' = IF exitCode THEN "OK" ELSE "ERROR"
    /\ UNCHANGED <<exitCode, laserThread, scanner, isInitialized, runState, shutdownSignalReceived>>

Interrupts ==
    /\ LaserGoes("switch", "head")
    /\ \/ runState = "run" /\ ~exitCode /\ runState' = "finalize" /\ UNCHANGED status
       \/ runState = "finalize" /\ status' = "EXIT" /\ UNCHANGED runState
    /\ UNCHANGED <<exitCode, laserThread, scanner, isInitialized, shutdownSignalReceived>>

Leaves ==
    /\ LaserGoes("leave", "destroy")
    /\ status' = "EXIT"
    /\ UNCHANGED <<exitCode, laserThread, scanner, isInitialized, runState, shutdownSignalReceived>>

\* Fault: the scanner stays.
EndsWithScanner ==
    /\ LaserGoes("destroy", "none")
    /\ UNCHANGED <<exitCode, shared>>

\* The scanner is deleted, which closes the connection.
Ends ==
    /\ LaserGoes("destroy", "none")
    /\ scanner' = FALSE
    /\ UNCHANGED <<exitCode, laserThread, isInitialized, runState, shutdownSignalReceived, status>>

LaserThread ==
    /\ \/ TestsRun \/ BeginsInit \/ DeletesOld \/ MakesScanner \/ Initialises
       \/ SetsInitialized \/ SetsRun \/ SetsStatus \/ LoopsOnce \/ Reinitialises
       \/ Reports \/ Interrupts \/ Leaves \/ Ends
    /\ UNCHANGED <<launch, programs>>

-----------------------------------------------------------------------------
(* The program. *)

Free == {"idle", "started", "stopped"}

\* SickScanApiInitByCli or main.
BeginsStart ==
    /\ program \in Free /\ sessions < MaxSessions
    /\ program' = "start"
    /\ UNCHANGED <<launch, lasers, shared, stop, sessions>>

\* startGenericLaser: nothing happens if there is a laser thread.
StartGenericLaser ==
    /\ program = "start"
    /\ IF laserThread
       THEN UNCHANGED <<launch, lasers, shared, sessions>>
       ELSE /\ changeIP' \in BOOLEAN /\ monitoring' \in BOOLEAN
            /\ laserThread' = TRUE /\ laser' = "head" /\ exitCode' = FALSE
            /\ scanner' = FALSE /\ isInitialized' = FALSE
            /\ shutdownSignalReceived' = FALSE
            /\ status' = "INIT" /\ runState' = "init"
            /\ sessions' = sessions + 1
    /\ program' = "started"
    /\ UNCHANGED stop

\* rosSignalHandler sets the flag before it calls stopScannerAndExit.
BeginsStop ==
    /\ program \in Free
    /\ stop' \in Stops
    /\ shutdownSignalReceived' = (shutdownSignalReceived \/ stop' = "close")
    /\ program' = "test"
    /\ UNCHANGED <<launch, lasers, laserThread, scanner, isInitialized, runState, status, sessions>>

\* stopScannerAndExit: without a scanner it only joins.
TestsScanner ==
    /\ program = "test"
    /\ program' = IF scanner THEN "finalize" ELSE "join"
    /\ UNCHANGED <<launch, lasers, shared, stop, sessions>>

Finalizes ==
    /\ program = "finalize"
    /\ runState' = "finalize"
    /\ program' = "exit"
    /\ UNCHANGED <<launch, lasers, laserThread, scanner, isInitialized, shutdownSignalReceived, status, stop, sessions>>

SetsExit ==
    /\ program = "exit"
    /\ status' = "EXIT"
    /\ program' = "join"
    /\ UNCHANGED <<launch, lasers, laserThread, scanner, isInitialized, runState, shutdownSignalReceived, stop, sessions>>

\* Fault: it does not wait for the end of the thread.
JoinsNobody ==
    /\ program = "join"
    /\ laserThread' = FALSE
    /\ program' = "stopped"
    /\ UNCHANGED <<launch, lasers, scanner, isInitialized, runState, shutdownSignalReceived, status, stop, sessions>>

joinGenericLaser ==
    /\ program = "join" /\ (laserThread => laser = "none")
    /\ laserThread' = FALSE
    /\ program' = "stopped"
    /\ UNCHANGED <<launch, lasers, scanner, isInitialized, runState, shutdownSignalReceived, status, stop, sessions>>

Stopping == TestsScanner \/ Finalizes \/ SetsExit \/ joinGenericLaser

-----------------------------------------------------------------------------

SessionInit ==
    /\ changeIP = FALSE /\ monitoring = FALSE
    /\ laser = "none" /\ laserThread = FALSE /\ exitCode = FALSE
    /\ scanner = FALSE /\ isInitialized = FALSE /\ runState = "init"
    /\ shutdownSignalReceived = FALSE /\ status = "INIT"
    /\ program = "idle" /\ stop = "none" /\ sessions = 0

SessionNext == LaserThread \/ BeginsStart \/ StartGenericLaser \/ BeginsStop \/ Stopping

\* Every call of the laser thread returns: SOPAS commands have timeouts, and so
\* has loopOnce; but the lidar need not come back while it is initialised again.
Progresses == LaserThread /\ (laser = "reinit" => ~rosOk)

SessionSpec ==
    /\ SessionInit /\ [][SessionNext]_sessionVars
    /\ WF_sessionVars(Progresses) /\ WF_sessionVars(Stopping)

-----------------------------------------------------------------------------
(* Properties. *)

SessionTypeOK ==
    /\ laser \in {"none", "head", "switch", "delete", "new", "init", "services", "setrun",
                  "setstatus", "reinit", "report", "leave", "destroy"}
    /\ program \in {"idle", "start", "started", "test", "finalize", "exit", "join", "stopped"}
    /\ {changeIP, monitoring, laserThread, exitCode, scanner, isInitialized, shutdownSignalReceived} \subseteq BOOLEAN
    /\ runState \in {"init", "run", "finalize"}
    /\ status \in {"INIT", "OK", "ERROR", "EXIT"}
    /\ stop \in Stops \cup {"none"}
    /\ sessions \in 0..MaxSessions
    /\ (laser # "none" => laserThread)

\* When the driver was stopped nothing of it is left: the laser thread has
\* ended, the scanner is deleted and no late write hides the status EXIT.
StoppedMeansEnded ==
    program = "stopped" =>
        /\ laser = "none" /\ ~laserThread /\ ~scanner
        /\ sessions > 0 => status = "EXIT"

\* SickScanApiClose returns.
CloseReturns == program = "test" /\ stop = "close" ~> program = "stopped"

=============================================================================
