------------------------------- MODULE Services -------------------------------
(***************************************************************************)
(* The services that share no state with each other: the pipe, the work    *)
(* queue, transmission and reception by DMA, the console and the lamp      *)
(* orders.  A behaviour is a behaviour of one of them, `service', while    *)
(* the others stay in their initial state, so the states of a run are the  *)
(* sum of theirs and not the product.                                      *)
(***************************************************************************)
EXTENDS Pipe, WorkQueue, SerialDmaTx, SerialDmaRx, AtConsole, LampQueue

VARIABLE service

AllServices == {"pipe", "work", "dma_tx", "dma_rx", "console", "lamp"}

servicesVars == <<service, pipeVars, workVars, txVars, rxVars, consoleVars, lampVars>>

ServicesInit == /\ service \in AllServices
                /\ PipeInit /\ WorkInit /\ TxInit /\ RxInit /\ ConsoleInit /\ LampInit

ServicesNext ==
  \/ /\ service = "pipe" /\ PipeNext
     /\ UNCHANGED <<service, workVars, txVars, rxVars, consoleVars, lampVars>>
  \/ /\ service = "work" /\ WorkNext
     /\ UNCHANGED <<service, pipeVars, txVars, rxVars, consoleVars, lampVars>>
  \/ /\ service = "dma_tx" /\ TxNext
     /\ UNCHANGED <<service, pipeVars, workVars, rxVars, consoleVars, lampVars>>
  \/ /\ service = "dma_rx" /\ RxNext
     /\ UNCHANGED <<service, pipeVars, workVars, txVars, consoleVars, lampVars>>
  \/ /\ service = "console" /\ ConsoleNext
     /\ UNCHANGED <<service, pipeVars, workVars, txVars, rxVars, lampVars>>
  \/ /\ service = "lamp" /\ LampNext
     /\ UNCHANGED <<service, pipeVars, workVars, txVars, rxVars, consoleVars>>

(* The fairness of each service, for as long as it is the one. *)
ServicesFairness ==
  /\ WF_pipeVars(service = "pipe" /\ \E t \in Users : PipeStep(t))
  /\ WF_workVars(service = "work" /\ WorkerStep)
  /\ WF_workVars(service = "work" /\ \E c \in Clients : Resume(c))
  /\ WF_txVars(service = "dma_tx" /\ TxDmaDone)
  /\ WF_txVars(service = "dma_tx" /\ \E d \in Writers : WriterStep(d))
  /\ \A t \in {"key", "main"} : SF_lampVars(service = "lamp" /\ UrgentStep(t))
  /\ SF_lampVars(service = "lamp" /\ LampTakes)
  /\ SF_lampVars(service = "lamp" /\ LampEnds)

ServicesSpec ==
  /\ ServicesInit
  /\ [][ServicesNext]_servicesVars
  /\ ServicesFairness

(* The type invariant of each service. *)
ServicesTypeOK == PipeTypeOK /\ WorkTypeOK /\ TxTypeOK /\ RxTypeOK
                  /\ ConsoleTypeOK /\ LampTypeOK
=============================================================================
