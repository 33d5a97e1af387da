---------------------------- MODULE MCEngineWorker ----------------------------
EXTENDS EngineWorker

CONSTANTS p1, sale, single, other, poison
===============================================================================
