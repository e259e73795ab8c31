----------------------------- MODULE SagaInTime -----------------------------
(* The behaviours of OrderSaga, told apart by whether a request may outlive *)
(* its attempt: in a punctual one none does, and the saga promises more.    *)
EXTENDS OrderSaga

VARIABLE punctual  \* no request outlives its attempt

InTimeInit == Init /\ punctual \in BOOLEAN
InTimeNext == Next /\ (punctual => late' = {}) /\ UNCHANGED punctual

InTimeSpec ==
    /\ InTimeInit /\ [][InTimeNext]_<<vars, punctual>>
    /\ \A o \in Orders : WF_vars(Answered(o) \/ Refused(o))

\* When no request outlives its attempt, a workflow that ended leaves a licence only
\* with who paid for it: RevokeLicense is due before the grant is tried
\* (workflow.go:138-142).
LicenseIsPaidInTime == punctual => LicenseIsPaid

\* Then also the status the buyer reads is how the saga ended (workflow.go:190-230).
EndIsReportedInTime == punctual => EndIsReported

\* And that status never goes back, however writes are repeated (domain/order.go).
StatusAdvancesInTime == [][punctual => Advances]_vars
=============================================================================
