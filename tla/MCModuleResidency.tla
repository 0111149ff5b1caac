---- MODULE MCModuleResidency ----
EXTENDS ModuleResidency
====
