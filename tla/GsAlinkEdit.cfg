SPECIFICATION Spec
INVARIANTS AlinkSafe
