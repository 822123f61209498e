SPECIFICATION Spec
INVARIANTS PollUplinkSafe
