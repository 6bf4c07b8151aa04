------------------------------ MODULE MCRoutes ------------------------------
EXTENDS Routes, TLC
=============================================================================
