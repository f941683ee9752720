---------------------------- MODULE ShipmentStates ----------------------------
(* The portal's code tables (wsdatachannel/states.go) and the predicates the   *)
(* client derives from them.  A status says where a shipment is, a result how  *)
(* it ended, a return code whether a send was taken.                           *)
EXTENDS Naturals

StatusPendingSend            == 1
StatusSending                == 2
StatusInProgress             == 3
StatusFinished               == 4
StatusSendError              == 5
StatusPendingCertificates    == 6
StatusPendingPostalCert      == 7
StatusPendingAuthorization   == 10
StatusAuthorizationsRejected == 11

Statuses ==
  { StatusPendingSend, StatusSending, StatusInProgress, StatusFinished,
    StatusSendError, StatusPendingCertificates, StatusPendingPostalCert,
    StatusPendingAuthorization, StatusAuthorizationsRejected }

ResultPending  == 0
ResultAccepted == 7
Results ==
  { ResultPending, ResultAccepted, 8, 21, 22, 10006, 99901, 99903, 99904,
    99906, 99908, 99910, 99915, 99932 }

RetCodeOK == 0
RetCodes  == { RetCodeOK, 100, 110, 120, 121, 122, 130, 140, 150 }

settled(status) ==
  status \in { StatusFinished, StatusSendError, StatusAuthorizationsRejected }

Accepted(state) ==
  /\ state.status = StatusFinished
  /\ state.result = ResultAccepted

(* RemmitanceResult.Err: TRUE when the method returns a non-nil error.         *)
Err(result) == result.retCode # RetCodeOK
===============================================================================
