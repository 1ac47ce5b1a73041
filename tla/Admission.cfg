SPECIFICATION Spec
CONSTANTS
  Tenants = {t1, t2}
  Ids = {id1}
  Targets = {target}
  None = none
INVARIANTS SameTenant NotStuck
